---- MODULE Spec2Model ----
(***************************************************************************)
(* Model of src/OCR.py: the Open WebUI "Multimodal Reasoning Pipe".        *)
(*                                                                         *)
(* Python values are tagged records [k, v]:                                *)
(*   S(chars)  a str, as a sequence of one-character strings               *)
(*   D(rec)    a dict, as a function from key names to tagged values       *)
(*   DO(rec, order)  a dict with the order in which its keys were inserted *)
(*   N(n)      an int                                                      *)
(*   L(seq)    a list, as a sequence of tagged values                      *)
(*   B(b)      a bool,  None  the value None,  R(a)  a reference to the    *)
(*   heap object at address a (used for the objects pipe may mutate).      *)
(* A str the code inspects is given character by character; a fixed text   *)
(* the code only passes on is given as one piece, and a text composed by   *)
(* joining lines as Composed(lines).                                       *)
(***************************************************************************)
EXTENDS Integers, Sequences, FiniteSets, TLC

S(chars) == [k |-> "str", v |-> chars]
D(rec) == [k |-> "dict", v |-> rec]
L(seq) == [k |-> "list", v |-> seq]
B(b) == [k |-> "bool", v |-> b]
R(a) == [k |-> "ref", v |-> a]
N(n) == [k |-> "int", v |-> n]
\* a dict whose keys were inserted in the given order; a dict written D(rec)
\* has its keys in the order of KeyOrder
DO(rec, order) == [k |-> "dict", v |-> rec, o |-> order]
\* the dict object d with the identity n: two entries of a list that are the
\* same object carry the same identity
SameObject(d, n) ==
    [f \in (DOMAIN d) \cup {"id"} |-> IF f = "id" THEN n ELSE d[f]]
None == [k |-> "none", v |-> <<>>]

IsStr(x) == x.k = "str"
IsDict(x) == x.k = "dict"
IsList(x) == x.k = "list"

\* Python truthiness of a value
Truthy(x) ==
    CASE x.k = "none" -> FALSE
      [] x.k = "bool" -> x.v
      [] x.k = "str" -> Len(x.v) > 0
      [] x.k = "list" -> Len(x.v) > 0
      [] x.k = "dict" -> DOMAIN x.v # {}
      [] x.k = "int" -> x.v # 0
      [] OTHER -> TRUE

\* a or b
Or(a, b) == IF Truthy(a) THEN a ELSE b

\* d.get(key) on a dict value
Get(d, key) == IF key \in DOMAIN d.v THEN d.v[key] ELSE None

\* d.get(key, default)
GetDefault(d, key, default) == IF key \in DOMAIN d.v THEN d.v[key] ELSE default

\* key in d
HasKey(d, key) == key \in DOMAIN d.v

\* isinstance(x, str) and x
IsNonEmptyStr(x) == IsStr(x) /\ Len(x.v) > 0

\* a dict without the given keys (dict.pop(key, None) for each)
WithoutKeys(rec, keys) == [key \in (DOMAIN rec) \ keys |-> rec[key]]

\* a dict with one key set (d[key] = val)
WithKey(rec, key, val) ==
    [kk \in (DOMAIN rec) \cup {key} |-> IF kk = key THEN val ELSE rec[kk]]

(***************************************************************************)
(* Strings                                                                 *)
(***************************************************************************)
\* the characters of Latin-1 that str.lower() changes (A-Z, and U+00C0 to
\* U+00DE without the multiplication sign), and what it changes them to
UpperChars == <<"A","B","C","D","E","F","G","H","I","J","K","L","M","N","O","P","Q",
                "R","S","T","U","V","W","X","Y","Z","À","Á","Â","Ã","Ä","Å","Æ","Ç",
                "È","É","Ê","Ë","Ì","Í","Î","Ï","Ð","Ñ","Ò","Ó","Ô","Õ","Ö","Ø","Ù",
                "Ú","Û","Ü","Ý","Þ">>
LowerChars == <<"a","b","c","d","e","f","g","h","i","j","k","l","m","n","o","p","q",
                "r","s","t","u","v","w","x","y","z","à","á","â","ã","ä","å","æ","ç",
                "è","é","ê","ë","ì","í","î","ï","ð","ñ","ò","ó","ô","õ","ö","ø","ù",
                "ú","û","ü","ý","þ">>

LowerMap ==
    [c \in {UpperChars[i] : i \in 1..Len(UpperChars)} |->
        LowerChars[CHOOSE i \in 1..Len(UpperChars) : UpperChars[i] = c]]

LowerChar(c) == IF c \in DOMAIN LowerMap THEN LowerMap[c] ELSE c

\* str.lower()
Lower(s) == [i \in 1..Len(s) |-> LowerChar(s[i])]

\* the characters str.strip() removes and \s matches (str.isspace), up to
\* U+00FF: tab, line feed, vertical tab (U+000B), form feed, carriage return,
\* the separators U+001C to U+001F, space, next line (U+0085) and no-break
\* space (U+00A0)
Whitespace ==
    {"\t", "\n", "", "\f", "\r", "", "", "", "", " ", "", " "}

RECURSIVE LStrip(_)
LStrip(s) == IF s # <<>> /\ Head(s) \in Whitespace THEN LStrip(Tail(s)) ELSE s

RECURSIVE RStrip(_)
RStrip(s) ==
    IF s # <<>> /\ s[Len(s)] \in Whitespace
    THEN RStrip(SubSeq(s, 1, Len(s) - 1))
    ELSE s

\* str.strip()
Strip(s) == RStrip(LStrip(s))

\* s.startswith(p)
StartsWith(s, p) == Len(s) >= Len(p) /\ SubSeq(s, 1, Len(p)) = p

\* s.endswith(p)
EndsWith(s, p) == Len(s) >= Len(p) /\ SubSeq(s, Len(s) - Len(p) + 1, Len(s)) = p

\* p in s
Contains(s, p) ==
    \E i \in 1..(Len(s) - Len(p) + 1) : SubSeq(s, i, i + Len(p) - 1) = p

\* s[:n]; a negative n counts from the end
Prefix(s, n) ==
    IF n < 0 THEN SubSeq(s, 1, Len(s) + n)
    ELSE SubSeq(s, 1, IF n < Len(s) THEN n ELSE Len(s))

\* sep.join(parts) for a list of strings
RECURSIVE Join(_, _)
Join(sep, parts) ==
    IF parts = <<>> THEN <<>>
    ELSE IF Len(parts) = 1 THEN parts[1]
    ELSE parts[1] \o sep \o Join(sep, Tail(parts))

\* [x for x in xs if x] for a list of strings
RECURSIVE NonEmpty(_)
NonEmpty(xs) ==
    IF xs = <<>> THEN <<>>
    ELSE IF Head(xs) # <<>> THEN <<Head(xs)>> \o NonEmpty(Tail(xs))
    ELSE NonEmpty(Tail(xs))

\* list(dict.fromkeys(xs)): first occurrences, in order
RECURSIVE FromKeys(_)
FromKeys(xs) ==
    IF xs = <<>> THEN <<>>
    ELSE LET front == FromKeys(SubSeq(xs, 1, Len(xs) - 1))
             last == xs[Len(xs)]
         IN IF \E i \in 1..Len(front) : front[i] = last
            THEN front
            ELSE Append(front, last)

(***************************************************************************)
(* String literals of the source, as character sequences                   *)
(***************************************************************************)
c_user == <<"u", "s", "e", "r">>
c_assistant == <<"a", "s", "s", "i", "s", "t", "a", "n", "t">>
c_system == <<"s", "y", "s", "t", "e", "m">>
c_image_url == <<"i", "m", "a", "g", "e", "_", "u", "r", "l">>
c_input_image == <<"i", "n", "p", "u", "t", "_", "i", "m", "a", "g", "e">>
c_image == <<"i", "m", "a", "g", "e">>
c_text == <<"t", "e", "x", "t">>
c_None == <<"N", "o", "n", "e">>

\* the characters of a Python string given as one piece
Chars(str) == [i \in 1..Len(str) |-> SubSeq(str, i, i)]

\* the order of the keys of a dict that is given without one
KeyOrder ==
    <<"role", "type", "text", "content", "image_url", "url", "path", "file_url",
      "src", "name", "mimetype", "images", "files", "model", "stream", "messages",
      "choices", "message", "id", "size", "data">>

\* the keys of a dict in insertion order
KeysOf(d) ==
    IF "o" \in DOMAIN d THEN d.o
    ELSE LET known == SelectSeq(KeyOrder, LAMBDA key : key \in DOMAIN d.v)
             rest == (DOMAIN d.v) \ {KeyOrder[i] : i \in 1..Len(KeyOrder)}
         IN IF rest = {} THEN known
            ELSE known \o (CHOOSE q \in [1..Cardinality(rest) -> rest] :
                              \A i, j \in DOMAIN q : i # j => q[i] # q[j])

\* the characters repr() writes as an escape (not str.isprintable), up to
\* U+00FF: U+0001 to U+001F, U+007F to U+00A0 and U+00AD (U+0000 is not a
\* character of the strings modelled)
NonPrintable ==
    <<"", "", "", "", "", "", "", "", "\t", "\n", "",
      "\f", "\r", "", "", "", "", "", "", "", "", "", "",
      "", "", "", "", "", "", "", "", "", "", "", "", "",
      "", "", "", "", "", "", "", "", "", "", "", "", "",
      "", "", "", "", "", "", "", "", "", "", "", "", "",
      "", "", " ", "­">>

HexDigits ==
    <<"0", "1", "2", "3", "4", "5", "6", "7", "8", "9", "a", "b", "c", "d", "e", "f">>

\* the code point of the i-th character of NonPrintable
NonPrintableCode(i) == IF i <= 31 THEN i ELSE IF i <= 65 THEN i + 95 ELSE 173

\* what repr() writes for one character inside the quotes
ReprChar(c, quote) ==
    IF c = "\\" THEN <<"\\", "\\">>
    ELSE IF c = quote THEN <<"\\", c>>
    ELSE IF c = "\t" THEN <<"\\", "t">>
    ELSE IF c = "\n" THEN <<"\\", "n">>
    ELSE IF c = "\r" THEN <<"\\", "r">>
    ELSE IF \E i \in 1..Len(NonPrintable) : NonPrintable[i] = c
    THEN LET code == NonPrintableCode(CHOOSE i \in 1..Len(NonPrintable) :
                                         NonPrintable[i] = c)
         IN <<"\\", "x", HexDigits[(code \div 16) + 1], HexDigits[(code % 16) + 1]>>
    ELSE <<c>>

RECURSIVE ReprChars(_, _)
ReprChars(chars, quote) ==
    IF chars = <<>> THEN <<>>
    ELSE ReprChar(Head(chars), quote) \o ReprChars(Tail(chars), quote)

\* repr() of a str: in double quotes when it holds a single quote and no
\* double quote, in single quotes otherwise
ReprStr(chars) ==
    LET quote == IF (\E i \in 1..Len(chars) : chars[i] = "'")
                    /\ ~(\E i \in 1..Len(chars) : chars[i] = "\"")
                 THEN "\"" ELSE "'"
    IN <<quote>> \o ReprChars(chars, quote) \o <<quote>>

\* The keys of a dict are named by strings.  A str key is named by itself;
\* a key that is no str (None, a bool, an int) is named by NonStrMark
\* followed by what repr() writes for it, and a str key that starts with
\* NonStrMark by NonStrMark followed by itself, so that 1, '1' and '~1' have
\* three names.
NonStrMark == "~"

Marked(name) == Len(name) >= 1 /\ SubSeq(name, 1, 1) = NonStrMark
IsStrKey(name) == Marked(name) => Marked(SubSeq(name, 2, Len(name)))

\* the str key of the given name
StrKey(name) == IF Marked(name) THEN SubSeq(name, 2, Len(name)) ELSE name

\* repr() of the key of the given name
KeyRepr(name) ==
    IF IsStrKey(name) THEN ReprStr(Chars(StrKey(name)))
    ELSE Chars(SubSeq(name, 2, Len(name)))

\* the int written in decimal digits
RECURSIVE NatOf(_)
NatOf(chars) ==
    IF chars = <<>> THEN 0
    ELSE NatOf(SubSeq(chars, 1, Len(chars) - 1)) * 10
         + (CHOOSE d \in 0..9 : HexDigits[d + 1] = chars[Len(chars)])

\* the key of the given name, as a value
KeyValue(name) ==
    IF IsStrKey(name) THEN S(Chars(StrKey(name)))
    ELSE LET r == Chars(SubSeq(name, 2, Len(name)))
         IN IF r = c_None THEN None
            ELSE IF r = <<"T", "r", "u", "e">> THEN B(TRUE)
            ELSE IF r = <<"F", "a", "l", "s", "e">> THEN B(FALSE)
            ELSE IF Head(r) = "-" THEN N(0 - NatOf(Tail(r)))
            ELSE N(NatOf(r))

\* repr() of a value
RECURSIVE Repr(_)
Repr(x) ==
    CASE x.k = "str" -> ReprStr(x.v)
      [] x.k = "none" -> c_None
      [] x.k = "bool" -> IF x.v THEN <<"T", "r", "u", "e">>
                                ELSE <<"F", "a", "l", "s", "e">>
      [] x.k = "int" -> Chars(ToString(x.v))
      [] x.k = "list" ->
           <<"[">> \o Join(<<",", " ">>, [i \in 1..Len(x.v) |-> Repr(x.v[i])]) \o <<"]">>
      [] x.k = "dict" ->
           LET keys == KeysOf(x)
           IN <<"{">>
              \o Join(<<",", " ">>,
                      [i \in 1..Len(keys) |->
                          KeyRepr(keys[i]) \o <<":", " ">> \o Repr(x.v[keys[i]])])
              \o <<"}">>
      [] OTHER -> <<"<", x.k, ">">>

\* str(x): a str is itself, any other value is written as repr() writes it
StrOf(x) == IF IsStr(x) THEN x.v ELSE Repr(x)

\* the extensions of the pattern \.(jpe?g|png|gif|bmp|webp|tiff)$
ImageExtensions ==
    { <<".", "j", "p", "g">>, <<".", "j", "p", "e", "g">>, <<".", "p", "n", "g">>,
      <<".", "g", "i", "f">>, <<".", "b", "m", "p">>, <<".", "w", "e", "b", "p">>,
      <<".", "t", "i", "f", "f">> }

\* re.search(r"\.(jpe?g|png|gif|bmp|webp|tiff)$", url, re.IGNORECASE);
\* $ matches at the end and before a final newline
ImageExtMatch(url) ==
    LET low == Lower(url)
        cut == IF low # <<>> /\ low[Len(low)] = "\n"
               THEN SubSeq(low, 1, Len(low) - 1) ELSE low
    IN \E ext \in ImageExtensions : EndsWith(low, ext) \/ EndsWith(cut, ext)

(***************************************************************************)
(* Image artifacts                                                         *)
(***************************************************************************)
\* the number of user messages the extractor scans
ScanWindow == 5

\* str(part.get("type", "")).lower()
PType(part) == Lower(StrOf(GetDefault(part, "type", S(<<>>))))

\* ptype in ("image_url", "input_image", "image")
IsImageTag(ptype) == ptype \in {c_image_url, c_input_image, c_image}

\* the condition under which a content part is collected as an image part
IsImagePart(part) ==
    /\ IsDict(part)
    /\ \/ IsImageTag(PType(part))
       \/ HasKey(part, "image_url")
       \/ HasKey(part, "file_url")
       \/ HasKey(part, "url")

\* one entry of an images list: the locators it contributes
ImageEntryUrls(u) ==
    IF IsNonEmptyStr(u) THEN <<u>>
    ELSE IF IsDict(u)
    THEN LET url == Or(Get(u, "url"),
                       Or(Get(u, "src"), Or(Get(u, "image_url"), Get(u, "file_url"))))
         IN IF IsDict(url)
            THEN LET nested == Or(Get(url, "url"), Get(url, "file_url"))
                 IN IF IsNonEmptyStr(nested) THEN <<nested>> ELSE <<>>
            ELSE IF IsNonEmptyStr(url) THEN <<url>> ELSE <<>>
    ELSE <<>>

\* f.get("url") or f.get("path") or f.get("file_url")
FileUrl(f) == Or(Get(f, "url"), Or(Get(f, "path"), Get(f, "file_url")))

\* (f.get("type") or f.get("mimetype") or "").lower(), for str values
FileType(f) == Lower(StrOf(Or(Get(f, "type"), Or(Get(f, "mimetype"), S(<<>>)))))

\* the first truthy of type and mimetype has no lower(): the statement raises
\* AttributeError (lines 465, 825, 876)
FileTypeRaises(f) == ~IsStr(Or(Get(f, "type"), Or(Get(f, "mimetype"), S(<<>>))))

\* one entry of a files list, as the extractor classifies it; an entry on
\* which the type raises is not classified
IsImageFile(f) ==
    /\ IsDict(f)
    /\ ~FileTypeRaises(f)
    /\ \/ StartsWith(FileType(f), c_image)
       \/ (IsStr(FileUrl(f)) /\ ImageExtMatch(FileUrl(f).v))

RECURSIVE FlatMapImages(_)
FlatMapImages(xs) ==
    IF xs = <<>> THEN <<>> ELSE ImageEntryUrls(Head(xs)) \o FlatMapImages(Tail(xs))

RECURSIVE FilterImageFiles(_)
FilterImageFiles(xs) ==
    IF xs = <<>> THEN <<>>
    ELSE (IF IsImageFile(Head(xs)) THEN <<Head(xs)>> ELSE <<>>)
         \o FilterImageFiles(Tail(xs))

RECURSIVE FilterImageParts(_)
FilterImageParts(xs) ==
    IF xs = <<>> THEN <<>>
    ELSE (IF IsImagePart(Head(xs)) THEN <<Head(xs)>> ELSE <<>>)
         \o FilterImageParts(Tail(xs))

\* the list under a key of a dict, or the empty list when it is not a list
ListAt(d, key) == IF IsList(Get(d, key)) THEN Get(d, key).v ELSE <<>>


\* a scan that takes every user message
RECURSIVE LastUserMsgsUnbounded(_, _)
LastUserMsgsUnbounded(messages, found) ==
    IF messages = <<>> THEN <<>>
    ELSE LET msg == messages[Len(messages)]
             rest == SubSeq(messages, 1, Len(messages) - 1)
         IN IF Get(msg, "role") = S(c_user)
            THEN <<msg>> \o LastUserMsgsUnbounded(rest, found + 1)
            ELSE LastUserMsgsUnbounded(rest, found)

\* the user messages scanned: most recent first, at most ScanWindow of them
RECURSIVE LastUserMsgs(_, _)
LastUserMsgs(messages, found) ==
    IF messages = <<>> \/ found >= ScanWindow THEN <<>>
    ELSE LET msg == messages[Len(messages)]
             rest == SubSeq(messages, 1, Len(messages) - 1)
         IN IF Get(msg, "role") = S(c_user)
            THEN <<msg>> \o LastUserMsgs(rest, found + 1)
            ELSE LastUserMsgs(rest, found)

\* body.get("messages", []) or []
MessagesOf(body) ==
    LET m == GetDefault(body, "messages", L(<<>>))
    IN IF Truthy(m) THEN m.v ELSE <<>>

RECURSIVE CollectImages(_)
CollectImages(msgs) ==
    IF msgs = <<>> THEN <<>>
    ELSE FlatMapImages(ListAt(Head(msgs), "images")) \o CollectImages(Tail(msgs))

RECURSIVE CollectFiles(_)
CollectFiles(msgs) ==
    IF msgs = <<>> THEN <<>>
    ELSE FilterImageFiles(ListAt(Head(msgs), "files")) \o CollectFiles(Tail(msgs))

RECURSIVE CollectParts(_)
CollectParts(msgs) ==
    IF msgs = <<>> THEN <<>>
    ELSE FilterImageParts(ListAt(Head(msgs), "content")) \o CollectParts(Tail(msgs))

\* equality of de-duplication keys <<kind, value>>
KeyEq(a, b) == a[1] = b[1] /\ a[2] = b[2]

\* the items whose key did not occur at an earlier position
RECURSIVE KeepFirsts(_, _, _)
KeepFirsts(items, keys, i) ==
    IF i > Len(items) THEN <<>>
    ELSE (IF \E j \in 1..(i - 1) : KeyEq(keys[j], keys[i])
          THEN <<>> ELSE <<items[i]>>)
         \o KeepFirsts(items, keys, i + 1)

\* _file_key: str(url or path or name or id(f)).  id(f) is the address the
\* runtime gave the object, written in decimal digits and kept in the same
\* set as the locators.  An entry built with SameObject has the address the
\* input names, so a locator that spells it is the same key; the address of
\* any other entry is one the request was written without, so its digits are
\* a key of their own, different for every entry
FileKey(f, i) ==
    IF Truthy(Or(Get(f, "url"), Or(Get(f, "path"), Get(f, "name"))))
    THEN <<"str", StrOf(Or(Get(f, "url"), Or(Get(f, "path"), Get(f, "name"))))>>
    ELSE IF "id" \in DOMAIN f THEN <<"str", StrOf(N(f.id))>>
    ELSE <<"id", i>>

\* the de-duplication key of a collected content part: its locator, or
\* repr(p) when it has none; both are kept in the one set seen_urls
PartKey(p) ==
    LET iu == Get(p, "image_url")
        url == IF IsDict(iu) THEN Or(Get(iu, "url"), Get(iu, "file_url"))
               ELSE IF IsStr(iu) THEN iu
               ELSE Or(Get(p, "url"), Or(Get(p, "path"), Get(p, "file_url")))
    IN IF IsNonEmptyStr(url) THEN <<"str", url.v>> ELSE <<"str", Repr(p)>>

\* (has_any, image_urls, file_dicts, content_parts)
_extract_image_artifacts(body) ==
    LET recent == LastUserMsgs(MessagesOf(body), 0)
        imgs == CollectImages(recent) \o FlatMapImages(ListAt(body, "images"))
        files == CollectFiles(recent) \o FilterImageFiles(ListAt(body, "files"))
        parts == CollectParts(recent)
        dimgs == FromKeys(imgs)
        dfiles == KeepFirsts(files, [i \in 1..Len(files) |-> FileKey(files[i], i)], 1)
        dparts == KeepFirsts(parts, [i \in 1..Len(parts) |-> PartKey(parts[i])], 1)
    IN [has_images |-> (dimgs # <<>> \/ dfiles # <<>> \/ dparts # <<>>),
        image_urls |-> dimgs,
        image_files |-> dfiles,
        content_parts |-> dparts]

\* the loop over a files list raises on a dict entry whose type has no lower
FilesRaise(xs) == \E i \in 1..Len(xs) : IF IsDict(xs[i]) THEN FileTypeRaises(xs[i]) ELSE FALSE

\* lines 784-788: msg.get("role") raises AttributeError on a message that is
\* not a dict, when the scan reaches it before its break
RECURSIVE ScanRaises(_, _)
ScanRaises(messages, found) ==
    IF messages = <<>> \/ found >= ScanWindow THEN FALSE
    ELSE LET msg == messages[Len(messages)]
             rest == SubSeq(messages, 1, Len(messages) - 1)
         IN IF ~IsDict(msg) THEN TRUE
            ELSE IF Get(msg, "role") = S(c_user)
            THEN ScanRaises(rest, found + 1)
            ELSE ScanRaises(rest, found)

\* whether _extract_image_artifacts(body) raises instead of returning:
\* messages that are truthy and not a list of dicts, or a file descriptor
\* with a type that is not a str, in a scanned message or at the top level
ExtractRaises(body) ==
    LET m == GetDefault(body, "messages", L(<<>>))
    IN IF Truthy(m) /\ ~IsList(m) THEN TRUE
       ELSE IF ScanRaises(MessagesOf(body), 0) THEN TRUE
       ELSE LET recent == LastUserMsgs(MessagesOf(body), 0)
            IN \/ \E i \in 1..Len(recent) : FilesRaise(ListAt(recent[i], "files"))
               \/ FilesRaise(ListAt(body, "files"))

\* {"type": "image_url", "image_url": {"url": url}}
ImagePart(url) == D([type |-> S(c_image_url), image_url |-> D([url |-> url])])

\* what one collected content part contributes to the normalized list
NormalizePart(p) ==
    IF ~IsDict(p) THEN <<>>
    ELSE IF IsImageTag(PType(p))
    THEN IF PType(p) = c_image /\ IsStr(Get(p, "url"))
         THEN <<ImagePart(Get(p, "url"))>>
         ELSE <<p>>
    ELSE IF HasKey(p, "image_url") \/ HasKey(p, "file_url") \/ HasKey(p, "url")
    THEN LET first == IF IsDict(Get(p, "image_url"))
                      THEN Get(Get(p, "image_url"), "url") ELSE None
             url == Or(first, Or(Get(p, "file_url"), Get(p, "url")))
         IN IF IsNonEmptyStr(url) THEN <<ImagePart(url)>> ELSE <<>>
    ELSE <<>>

RECURSIVE NormalizeParts(_)
NormalizeParts(ps) ==
    IF ps = <<>> THEN <<>> ELSE NormalizePart(Head(ps)) \o NormalizeParts(Tail(ps))

RECURSIVE NormalizeUrls(_)
NormalizeUrls(us) ==
    IF us = <<>> THEN <<>>
    ELSE (IF IsNonEmptyStr(Head(us)) THEN <<ImagePart(Head(us))>> ELSE <<>>)
         \o NormalizeUrls(Tail(us))

RECURSIVE NormalizeFiles(_)
NormalizeFiles(fs) ==
    IF fs = <<>> THEN <<>>
    ELSE (IF IsDict(Head(fs)) /\ IsNonEmptyStr(FileUrl(Head(fs)))
          THEN <<ImagePart(FileUrl(Head(fs)))>> ELSE <<>>)
         \o NormalizeFiles(Tail(fs))

\* the key the normalizers de-duplicate by: image_url.url when image_url is a dict
NormKey(p, i) ==
    LET iu == Get(p, "image_url")
        url == IF IsDict(iu) THEN Get(iu, "url") ELSE None
    IN IF IsNonEmptyStr(url) THEN <<"str", url.v>> ELSE <<"id", i>>

\* the de-duplication loop shared by the normalizers
DedupByUrl(parts) ==
    KeepFirsts(parts, [i \in 1..Len(parts) |-> NormKey(parts[i], i)], 1)

\* the image parts sent for OCR, one vision call each
_normalize_to_image_content_parts_inline(images, files, parts) ==
    DedupByUrl(NormalizeParts(parts) \o NormalizeUrls(images) \o NormalizeFiles(files))

\* the image parts of the incremental stage (_norm_many: the same steps)
_norm_many(urls, files, parts) ==
    DedupByUrl(NormalizeParts(parts) \o NormalizeUrls(urls) \o NormalizeFiles(files))

\* the locators _count_images_for_status collects from one content part
CountPartUrls(p) ==
    IF ~IsDict(p) THEN <<>>
    ELSE IF IsImageTag(PType(p))
    THEN LET iu == Get(p, "image_url")
         IN IF IsDict(iu)
            THEN LET u == Or(Get(iu, "url"), Get(iu, "file_url"))
                 IN IF IsNonEmptyStr(u) THEN <<u>> ELSE <<>>
            ELSE IF IsNonEmptyStr(iu) THEN <<iu>> ELSE <<>>
    ELSE LET u == Or(Get(p, "url"), Or(Get(p, "path"), Get(p, "file_url")))
         IN IF IsNonEmptyStr(u) THEN <<u>> ELSE <<>>

RECURSIVE CountPartsUrls(_)
CountPartsUrls(ps) ==
    IF ps = <<>> THEN <<>> ELSE CountPartUrls(Head(ps)) \o CountPartsUrls(Tail(ps))

RECURSIVE FileUrls(_)
FileUrls(fs) ==
    IF fs = <<>> THEN <<>>
    ELSE (IF IsDict(Head(fs)) /\ IsNonEmptyStr(FileUrl(Head(fs)))
          THEN <<FileUrl(Head(fs))>> ELSE <<>>)
         \o FileUrls(Tail(fs))

RECURSIVE StrUrls(_)
StrUrls(us) ==
    IF us = <<>> THEN <<>>
    ELSE (IF IsNonEmptyStr(Head(us)) THEN <<Head(us)>> ELSE <<>>) \o StrUrls(Tail(us))

\* the image count shown in the "Running OCR" status
_count_images_for_status(images, files, parts) ==
    Len(FromKeys(StrUrls(images) \o FileUrls(files) \o CountPartsUrls(parts)))

(***************************************************************************)
(* Incremental scan: the user messages after the last assistant message    *)
(***************************************************************************)
\* index of the last assistant message, 0 when there is none (lines 429-433,
\* for a scan that does not raise)
LastAssistantIdx(msgs) ==
    LET IsAssistant(i) == IF IsDict(msgs[i])
                          THEN Get(msgs[i], "role") = S(c_assistant) ELSE FALSE
    IN IF \E i \in 1..Len(msgs) : IsAssistant(i)
       THEN CHOOSE i \in 1..Len(msgs) :
               /\ IsAssistant(i)
               /\ \A j \in (i + 1)..Len(msgs) : ~IsAssistant(j)
       ELSE 0

RECURSIVE UserMsgs(_)
UserMsgs(msgs) ==
    IF msgs = <<>> THEN <<>>
    ELSE (IF Get(Head(msgs), "role") = S(c_user) THEN <<Head(msgs)>> ELSE <<>>)
         \o UserMsgs(Tail(msgs))

\* the user messages of msgs[last_assistant_idx + 1:]
IncrementalSpan(body) ==
    LET msgs == MessagesOf(body)
    IN UserMsgs(SubSeq(msgs, LastAssistantIdx(msgs) + 1, Len(msgs)))

\* a file descriptor the incremental scan accepts: an image type or any
\* locator; a descriptor on which the type raises is not accepted
IsNewFile(f) ==
    /\ IsDict(f)
    /\ ~FileTypeRaises(f)
    /\ (StartsWith(FileType(f), c_image) \/ IsNonEmptyStr(FileUrl(f)))

RECURSIVE FilterNewFiles(_)
FilterNewFiles(fs) ==
    IF fs = <<>> THEN <<>>
    ELSE (IF IsNewFile(Head(fs)) THEN <<Head(fs)>> ELSE <<>>) \o FilterNewFiles(Tail(fs))

RECURSIVE NewUrls(_)
NewUrls(msgs) ==
    IF msgs = <<>> THEN <<>>
    ELSE FlatMapImages(ListAt(Head(msgs), "images"))
         \o FileUrls(FilterNewFiles(ListAt(Head(msgs), "files")))
         \o NewUrls(Tail(msgs))

RECURSIVE NewFiles(_)
NewFiles(msgs) ==
    IF msgs = <<>> THEN <<>>
    ELSE FilterNewFiles(ListAt(Head(msgs), "files")) \o NewFiles(Tail(msgs))

\* whether the scan of lines 428-485 raises: messages that are not a list, a
\* message that is not a dict at or after the last assistant message
\* (msgs[i].get, m.get), or a file descriptor of a user message of the span
\* whose type has no lower()
IncrementalRaises(body) ==
    LET m == GetDefault(body, "messages", L(<<>>))
    IN IF Truthy(m) /\ ~IsList(m) THEN TRUE
       ELSE LET msgs == MessagesOf(body)
                last == LastAssistantIdx(msgs)
            IN \/ \E i \in (last + 1)..Len(msgs) : ~IsDict(msgs[i])
               \/ \E i \in (last + 1)..Len(msgs) :
                     IF IsDict(msgs[i])
                     THEN /\ Get(msgs[i], "role") = S(c_user)
                          /\ FilesRaise(ListAt(msgs[i], "files"))
                     ELSE FALSE

\* new_image_parts_all of a scan that does not raise
ScannedImageParts(body) ==
    LET span == IncrementalSpan(body)
    IN _norm_many(NewUrls(span), NewFiles(span), CollectParts(span))

\* the image parts the incremental stage sends for OCR: new_image_parts_all,
\* or none when the scan raised, the except of lines 600-602 abandoning the
\* stage before its first request
NewImageParts(body) ==
    IF IncrementalRaises(body) THEN <<>> ELSE ScannedImageParts(body)

(***************************************************************************)
(* _sanitize_messages_for_main                                             *)
(***************************************************************************)
RECURSIVE CleanParts(_)
CleanParts(parts) ==
    IF parts = <<>> THEN <<>>
    ELSE (IF IsDict(Head(parts)) /\ IsImageTag(PType(Head(parts)))
          THEN <<>> ELSE <<Head(parts)>>)
         \o CleanParts(Tail(parts))

\* the characters of a str as one piece, for use as a dict key
RECURSIVE Concat(_)
Concat(chars) == IF chars = <<>> THEN "" ELSE Head(chars) \o Concat(Tail(chars))

\* the name of the key a value makes in a dict
KeyName(x) ==
    IF IsStr(x)
    THEN (IF Marked(Concat(x.v)) THEN NonStrMark \o Concat(x.v) ELSE Concat(x.v))
    ELSE NonStrMark \o Concat(Repr(x))

\* the key that is equal to x and has its hash: True is 1 and False is 0
CanonKey(x) == IF x.k = "bool" THEN N(IF x.v THEN 1 ELSE 0) ELSE x

\* whether dict() takes e as a key/value pair: an iterable of length 2 whose
\* first item is hashable
IsPair(e) ==
    CASE e.k = "str" -> Len(e.v) = 2
      [] e.k = "list" -> Len(e.v) = 2 /\ e.v[1].k \notin {"list", "dict"}
      [] e.k = "dict" -> Cardinality(DOMAIN e.v) = 2
      [] OTHER -> FALSE

\* a pair as <<the key it sets, its value, the name of its key>>; the key
\* it sets is the key of that name or an equal key inserted before it
PairOf(e) ==
    CASE e.k = "str" -> <<KeyName(S(<<e.v[1]>>)), S(<<e.v[2]>>), KeyName(S(<<e.v[1]>>))>>
      [] e.k = "list" -> <<KeyName(CanonKey(e.v[1])), e.v[2], KeyName(e.v[1])>>
      [] e.k = "dict" -> <<KeyName(CanonKey(KeyValue(KeysOf(e)[1]))),
                           KeyValue(KeysOf(e)[2]), KeysOf(e)[1]>>

\* m = dict(msg) raises: TypeError on a value that is not iterable,
\* ValueError or TypeError on an iterable whose elements are not pairs (a
\* str that is not empty among them)
DictRaises(x) ==
    CASE x.k = "dict" -> FALSE
      [] x.k = "str" -> x.v # <<>>
      [] x.k = "list" -> \E i \in 1..Len(x.v) : ~IsPair(x.v[i])
      [] OTHER -> TRUE

\* the first and the last pair that set the key
FirstPair(pairs, key) ==
    pairs[CHOOSE i \in 1..Len(pairs) :
             pairs[i][1] = key /\ \A j \in 1..(i - 1) : pairs[j][1] # key]
LastPair(pairs, key) ==
    pairs[CHOOSE i \in 1..Len(pairs) :
             pairs[i][1] = key /\ \A j \in (i + 1)..Len(pairs) : pairs[j][1] # key]

\* the dict of a sequence of pairs: a key is the key object of the first
\* pair that sets it and has the value of the last, the keys are in the
\* order of their first pairs
DictOfPairs(pairs, keys) ==
    DO([name \in {FirstPair(pairs, keys[i])[3] : i \in 1..Len(keys)} |->
           LastPair(pairs, keys[CHOOSE i \in 1..Len(keys) :
                                   FirstPair(pairs, keys[i])[3] = name])[2]],
       [i \in 1..Len(keys) |-> FirstPair(pairs, keys[i])[3]])

\* the keys of the pairs in the order of their first occurrence
PairKeys(pairs) == FromKeys([i \in 1..Len(pairs) |-> pairs[i][1]])

\* the pairs of a list
PairsOf(x) == [i \in 1..Len(x.v) |-> PairOf(x.v[i])]

\* dict(msg) when it does not raise: the dict itself, the empty dict for an
\* empty str or list, the dict of the pairs of a list (a later pair with
\* an equal key sets its value)
DictOf(x) ==
    IF IsDict(x) THEN x
    ELSE IF IsList(x) /\ x.v # <<>>
    THEN DictOfPairs(PairsOf(x), PairKeys(PairsOf(x)))
    ELSE D(<<>>)

\* one sanitized message: a copy without images and files, image parts dropped
\* lines 1132-1144: a list content without its image parts
CleanContent(m) ==
    IF "content" \in DOMAIN m /\ IsList(m["content"])
    THEN WithKey(m, "content", L(CleanParts(m["content"].v)))
    ELSE m

\* lines 1130-1145 on the copy d: images and files popped, content cleaned
SanitizeDict(d) ==
    IF "o" \in DOMAIN d
    THEN DO(CleanContent(WithoutKeys(d.v, {"images", "files"})),
            SelectSeq(d.o, LAMBDA key : key \notin {"images", "files"}))
    ELSE D(CleanContent(WithoutKeys(d.v, {"images", "files"})))

SanitizeMessage(msg) == SanitizeDict(DictOf(msg))

\* line 1129: dict(msg) raises on one of the messages, which ends
\* _sanitize_messages_for_main with that exception
SanitizeRaises(messages) == \E i \in 1..Len(messages) : DictRaises(messages[i])

_sanitize_messages_for_main(messages) ==
    [i \in 1..Len(messages) |-> SanitizeMessage(messages[i])]

(***************************************************************************)
(* _extract_text_from_response and _parse_ocr_structured_output            *)
(***************************************************************************)
\* a key of a dict that equals the int 0: 0 itself or False
IsZeroKey(name) == IF IsStrKey(name) THEN FALSE ELSE CanonKey(KeyValue(name)) = N(0)

\* choices[0]: in a list its first element, in a dict the value at the key 0;
\* on anything else the subscript or the .get after it raises, which ends
\* _extract_text_from_response with ""
HasFirst(choices) ==
    IF IsList(choices) THEN TRUE
    ELSE IF IsDict(choices) THEN \E name \in DOMAIN choices.v : IsZeroKey(name)
    ELSE FALSE
FirstOf(choices) ==
    IF IsList(choices) THEN choices.v[1]
    ELSE choices.v[CHOOSE name \in DOMAIN choices.v : IsZeroKey(name)]

_extract_text_from_response(resp) ==
    IF ~IsDict(resp) THEN <<>>
    ELSE LET choices == Or(Get(resp, "choices"), L(<<>>))
         IN IF ~(Truthy(choices) /\ HasFirst(choices)) THEN <<>>
            ELSE IF ~IsDict(FirstOf(choices)) THEN <<>>
            ELSE LET msg == Or(Get(FirstOf(choices), "message"), D(<<>>))
                 IN IF ~IsDict(msg) THEN <<>>
                    ELSE IF IsStr(Get(msg, "content"))
                    THEN Strip(Get(msg, "content").v)
                    ELSE <<>>

\* the line boundaries of str.splitlines(), up to U+00FF: line feed,
\* carriage return, vertical tab (U+000B), form feed, U+001C to U+001E and
\* next line (U+0085)
LineBreaks == {"\n", "\r", "", "\f", "", "", "", ""}

\* str.splitlines()
RECURSIVE SplitLines(_)
SplitLines(s) ==
    IF s = <<>> THEN <<>>
    ELSE IF \E i \in 1..Len(s) : s[i] \in LineBreaks
    THEN LET i == CHOOSE n \in 1..Len(s) :
                     s[n] \in LineBreaks /\ \A m \in 1..(n - 1) : s[m] \notin LineBreaks
             skip == IF s[i] = "\r" /\ i < Len(s) /\ s[i + 1] = "\n" THEN 2 ELSE 1
         IN <<SubSeq(s, 1, i - 1)>> \o SplitLines(SubSeq(s, i + skip, Len(s)))
    ELSE <<s>>

m_text == <<"t", "e", "x", "t">>
m_description == <<"d", "e", "s", "c", "r", "i", "p", "t", "i", "o", "n">>
m_category == <<"c", "a", "t", "e", "g", "o", "r", "y">>

\* ^\s*<word>\s*:\s*$, ignoring case
IsHeader(line, word) ==
    LET t == Strip(line)
    IN /\ t # <<>>
       /\ t[Len(t)] = ":"
       /\ Lower(RStrip(SubSeq(t, 1, Len(t) - 1))) = word

\* ^\s*category\s*:\s*(.+?)\s*$, ignoring case: whether it matches. The
\* group takes at least one character and no newline: what follows the colon
\* has a character other than a newline, and no newline between its first
\* and its last character that is not whitespace
IsCategoryLine(line) ==
    LET t == LStrip(line)
    IN /\ StartsWith(Lower(t), m_category)
       /\ LET rest == LStrip(SubSeq(t, Len(m_category) + 1, Len(t)))
          IN /\ rest # <<>>
             /\ Head(rest) = ":"
             /\ \E i \in 2..Len(rest) : rest[i] # "\n"
             /\ \A i \in 1..Len(Strip(Tail(rest))) : Strip(Tail(rest))[i] # "\n"

\* m.group(1).strip() of a matching category line
CategoryValue(line) ==
    LET t == LStrip(line)
        rest == LStrip(SubSeq(t, Len(m_category) + 1, Len(t)))
    IN Strip(Tail(rest))

\* ^\s*---\s*$
IsSeparator(line) == Strip(line) = <<"-", "-", "-">>

\* a loop in which a TEXT: header does not end the description section
RECURSIVE ParseLinesSticky(_, _)
ParseLinesSticky(lines, acc) ==
    IF lines = <<>> THEN acc
    ELSE LET line == Head(lines)
             next ==
               IF IsHeader(line, m_text) THEN acc
               ELSE IF IsHeader(line, m_description)
               THEN [acc EXCEPT !.current = "description"]
               ELSE IF IsCategoryLine(line)
               THEN [acc EXCEPT !.category = CategoryValue(line)]
               ELSE IF IsSeparator(line) THEN acc
               ELSE IF acc.current = "description"
               THEN [acc EXCEPT !.desc_lines = Append(@, line)]
               ELSE [acc EXCEPT !.text_lines = Append(@, line)]
         IN ParseLinesSticky(Tail(lines), next)

\* the loop over raw.splitlines(): acc is [current, text_lines, desc_lines, category]
RECURSIVE ParseLines(_, _)
ParseLines(lines, acc) ==
    IF lines = <<>> THEN acc
    ELSE LET line == Head(lines)
             next ==
               IF IsHeader(line, m_text) THEN [acc EXCEPT !.current = "text"]
               ELSE IF IsHeader(line, m_description)
               THEN [acc EXCEPT !.current = "description"]
               ELSE IF IsCategoryLine(line)
               THEN [acc EXCEPT !.category = CategoryValue(line)]
               ELSE IF IsSeparator(line) THEN acc
               ELSE IF acc.current = "description"
               THEN [acc EXCEPT !.desc_lines = Append(@, line)]
               ELSE [acc EXCEPT !.text_lines = Append(@, line)]
         IN ParseLines(Tail(lines), next)

AllowedCategories ==
    { <<"s", "c", "r", "e", "e", "n", "s", "h", "o", "t">>,
      <<"d", "o", "c", "u", "m", "e", "n", "t">>,
      <<"d", "i", "a", "g", "r", "a", "m">>,
      <<"m", "a", "t", "h">>,
      <<"s", "l", "i", "d", "e">>,
      <<"w", "h", "i", "t", "e", "b", "o", "a", "r", "d">>,
      <<"h", "a", "n", "d", "w", "r", "i", "t", "t", "e", "n", "_", "n", "o", "t", "e">>,
      <<"p", "h", "o", "t", "o">>,
      <<"o", "t", "h", "e", "r">> }

\* synonyms.get(c, c)
Synonym(c) ==
    IF c = <<"h", "a", "n", "d", "w", "r", "i", "t", "t", "e", "n">> THEN <<"h", "a", "n", "d", "w", "r", "i", "t", "t", "e", "n", "_", "n", "o", "t", "e">>
    ELSE IF c = <<"h", "a", "n", "d", "w", "r", "i", "t", "i", "n", "g">> THEN <<"h", "a", "n", "d", "w", "r", "i", "t", "t", "e", "n", "_", "n", "o", "t", "e">>
    ELSE IF c = <<"w", "e", "b", "p", "a", "g", "e">> THEN <<"s", "c", "r", "e", "e", "n", "s", "h", "o", "t">>
    ELSE IF c = <<"u", "i">> THEN <<"s", "c", "r", "e", "e", "n", "s", "h", "o", "t">>
    ELSE IF c = <<"s", "c", "r", "e", "e", "n">> THEN <<"s", "c", "r", "e", "e", "n", "s", "h", "o", "t">>
    ELSE IF c = <<"p", "i", "c", "t", "u", "r", "e">> THEN <<"p", "h", "o", "t", "o">>
    ELSE IF c = <<"i", "m", "a", "g", "e">> THEN <<"p", "h", "o", "t", "o">>
    ELSE c

\* the normalization without the membership test: the value after the
\* synonyms is returned as it is
NormalizeCategoryUnchecked(category) ==
    IF category = <<>> THEN <<>>
    ELSE LET c0 == Lower(Strip(category))
             c1 == [i \in 1..Len(c0) |-> IF c0[i] \in {"-", " "} THEN "_" ELSE c0[i]]
         IN Synonym(c1)

\* the category normalization at the end of the parser
NormalizeCategory(category) ==
    IF category = <<>> THEN <<>>
    ELSE LET c0 == Lower(Strip(category))
             c1 == [i \in 1..Len(c0) |-> IF c0[i] \in {"-", " "} THEN "_" ELSE c0[i]]
             c == Synonym(c1)
         IN IF c \in AllowedCategories THEN c
            ELSE IF \E a \in AllowedCategories : StartsWith(c, a)
            THEN CHOOSE a \in AllowedCategories : StartsWith(c, a)
            ELSE <<>>

\* descriptions that mean "no description"
EmptyDescriptions ==
    { <<"n", "/", "a">>, <<"n", "a">>, <<"n", "o", "n", "e">>, <<"n", "o", " ", "d", "e", "s", "c", "r", "i", "p", "t", "i", "o", "n">> }

\* a separator line taken for a marker as well
HasMarkersOrSeparator(lowered) ==
    \/ Contains(lowered, Append(m_text, ":"))
    \/ Contains(lowered, Append(m_description, ":"))
    \/ Contains(lowered, Append(m_category, ":"))
    \/ Contains(lowered, <<"-", "-", "-">>)

\* lines 1033-1038: "text:" in lowered or "description:" in lowered or
\* "category:" in lowered
HasMarkers(lowered) ==
    \/ Contains(lowered, Append(m_text, ":"))
    \/ Contains(lowered, Append(m_description, ":"))
    \/ Contains(lowered, Append(m_category, ":"))

_parse_ocr_structured_output(text) ==
    IF Strip(text) = <<>> THEN [text |-> <<>>, description |-> <<>>, category |-> <<>>]
    ELSE LET raw == Strip(text)
             lowered == Lower(raw)
             has_markers == HasMarkers(lowered)
         IN IF ~has_markers
            THEN [text |-> raw, description |-> <<>>, category |-> <<>>]
            ELSE LET acc == ParseLines(SplitLines(raw),
                                       [current |-> "none", text_lines |-> <<>>,
                                        desc_lines |-> <<>>, category |-> <<>>])
                     ocr_text == Strip(Join(<<"\n">>, acc.text_lines))
                     ocr_desc == Strip(Join(<<"\n">>, acc.desc_lines))
                 IN [text |-> ocr_text,
                     description |-> IF Lower(ocr_desc) \in EmptyDescriptions
                                     THEN <<>> ELSE ocr_desc,
                     category |-> NormalizeCategory(acc.category)]

(***************************************************************************)
(* Configuration and fixed texts                                           *)
(***************************************************************************)
\* Valves defaults
OCR_MODEL_ID == <<"gemma3:12b">>
MAIN_MODEL_ID == <<"gpt-oss:20b">>
DefaultMaxChars == 50000

\* the fixed system instruction and user text of every OCR request
OcrSystemPrompt ==
    <<"You are an OCR and image-understanding assistant. Extract all visible text verbatim from the provided image.\n- Preserve natural reading order, line breaks and headings.\n- Do not translate; keep original language.\n- Additionally, when it is relevant to understanding user intent, include a detailed but concise description of the image.\n- Always format your response using this schema:\nTEXT:\n<transcribed text>\n\n---\nDESCRIPTION:\n<description or 'N/A'>\n\n---\nCATEGORY: screenshot|document|diagram|math|slide|whiteboard|handwritten_note|photo|other">>
OcrUserText == <<"Transcribe the attached image per schema.">>

\* "\n\n---\n\n" and "\n\n[...truncated]"
Separator == <<"\n", "\n", "-", "-", "-", "\n", "\n">>
TruncationMarker == <<"\n", "\n", "[", ".", ".", ".", "t", "r", "u", "n", "c", "a", "t", "e", "d", "]">>

\* seconds within which an identical status is suppressed
StatusTtl == 3


\* an OCR request that asks the vision model to stream
SingleOcrBodyStreamed(img_part) ==
    D([model |-> S(OCR_MODEL_ID),
       stream |-> B(TRUE),
       messages |-> L(<< D([role |-> S(c_system), content |-> S(OcrSystemPrompt)]),
                         D([role |-> S(c_user),
                            content |-> L(<< D([type |-> S(c_text),
                                                text |-> S(OcrUserText)]),
                                             img_part >>)]) >>)])

\* the request body of one per-image OCR call
SingleOcrBody(img_part) ==
    D([model |-> S(OCR_MODEL_ID),
       stream |-> B(FALSE),
       messages |-> L(<< D([role |-> S(c_system), content |-> S(OcrSystemPrompt)]),
                         D([role |-> S(c_user),
                            content |-> L(<< D([type |-> S(c_text),
                                                text |-> S(OcrUserText)]),
                                             img_part >>)]) >>)])

\* text[:cap] + marker when text is longer than cap
Truncate(text, cap) == Prefix(text, cap) \o TruncationMarker

\* per-image results combined with explicit separators
AggregateResults(per) ==
    [text |-> Join(Separator, NonEmpty(per.texts)),
     desc |-> Join(Separator, NonEmpty(per.descs)),
     category |-> Join(<<",", " ">>, FromKeys(NonEmpty(per.cats)))]

EmptyOcr == [text |-> <<>>, desc |-> <<>>, category |-> <<>>]
EmptyPer == [texts |-> <<>>, descs |-> <<>>, cats |-> <<>>]

\* ocr_text or ocr_desc or ocr_category
HasOcr(o) == o.text # <<>> \/ o.desc # <<>> \/ o.category # <<>>

\* the merge of the incremental results into the aggregate
MergeIncremental(o, per) ==
    LET add_text == Join(Separator, per.texts)
        add_desc == Join(Separator, per.descs)
    IN [text |-> IF add_text # <<>>
                 THEN (IF o.text # <<>> THEN o.text \o Separator \o add_text
                       ELSE add_text)
                 ELSE o.text,
        desc |-> IF add_desc # <<>>
                 THEN (IF o.desc # <<>> THEN o.desc \o Separator \o add_desc
                       ELSE add_desc)
                 ELSE o.desc,
        category |-> IF per.cats # <<>>
                     THEN Join(<<",", " ">>,
                               NonEmpty(FromKeys((IF o.category # <<>>
                                                  THEN <<o.category>> ELSE <<>>)
                                                 \o per.cats)))
                     ELSE o.category]

\* a str composed by "\n".join(lines), given as its lines
Composed(lines) == [k |-> "composed", v |-> lines]

\* a line of a composed text: a fixed literal or a computed value
Lit(str) == [k |-> "lit", v |-> <<str>>]
Txt(chars) == [k |-> "txt", v |-> chars]

\* the lines without the blank computed ones at the end
RECURSIVE DropBlankEnd(_)
DropBlankEnd(lines) ==
    IF lines # <<>> /\ Strip(lines[Len(lines)].v) = <<>> /\ lines[Len(lines)].k = "txt"
    THEN DropBlankEnd(SubSeq(lines, 1, Len(lines) - 1))
    ELSE lines

\* "\n".join(lines).strip(), for lines that begin with a fixed literal: the
\* blank lines at the end are dropped and the last line loses the whitespace
\* at its end
StripLines(lines) ==
    LET kept == DropBlankEnd(lines)
    IN IF kept # <<>> /\ kept[Len(kept)].k = "txt"
       THEN [kept EXCEPT ![Len(kept)] = Txt(RStrip(@.v))]
       ELSE kept

\* the truncated values placed in the injected system message
InjectedText(o, vs) ==
    IF o.text # <<>> /\ Len(o.text) > vs.OCR_MAX_CHARS
    THEN Truncate(o.text, vs.OCR_MAX_CHARS) ELSE o.text

InjectedDesc(o, vs) ==
    IF o.desc # <<>> /\ Len(o.desc) > vs.OCR_DESC_MAX_CHARS
    THEN Truncate(o.desc, vs.OCR_DESC_MAX_CHARS) ELSE o.desc

\* context_lines of the OCR system message
ContextLines(o, vs) ==
    << Lit("Image understanding results extracted from user-provided image(s)."),
       Lit("Use these alongside the user's prompt to answer accurately."),
       Txt(<<>>) >>
    \o (IF o.text # <<>>
        THEN <<Lit("OCR_TEXT:"), Txt(InjectedText(o, vs)), Txt(<<>>)>> ELSE <<>>)
    \o (IF o.desc # <<>>
        THEN <<Lit("OCR_DESCRIPTION:"), Txt(InjectedDesc(o, vs)), Txt(<<>>)>> ELSE <<>>)
    \o (IF o.category # <<>>
        THEN <<[k |-> "OCR_CATEGORY: ", v |-> o.category]>> ELSE <<>>)

\* ocr_context: the injected system message
OcrContext(o, vs) ==
    D([role |-> S(c_system), content |-> Composed(StripLines(ContextLines(o, vs)))])

\* the truncated values shown in the preview message
PreviewText(o, vs) ==
    IF vs.OCR_MAX_CHARS # 0 /\ Len(o.text) > vs.OCR_MAX_CHARS
    THEN Truncate(o.text, vs.OCR_MAX_CHARS) ELSE o.text

PreviewDesc(o, vs) ==
    IF vs.OCR_DESC_MAX_CHARS # 0 /\ Len(o.desc) > vs.OCR_DESC_MAX_CHARS
    THEN Truncate(o.desc, vs.OCR_DESC_MAX_CHARS) ELSE o.desc

\* the markdown code fence (three backquotes, which a string here cannot hold)
CodeFence == "[code fence]"

\* preview_lines of the OCR preview message
PreviewLines(o, vs) ==
    <<Lit("OCR Results")>>
    \o (IF o.category # <<>> THEN <<[k |-> "Category: ", v |-> o.category]>> ELSE <<>>)
    \o << Txt(<<>>), Lit("Text:"), Lit(CodeFence),
          (IF PreviewText(o, vs) # <<>> THEN Txt(PreviewText(o, vs))
           ELSE Lit("(no visible text)")),
          Lit(CodeFence) >>
    \o (IF PreviewDesc(o, vs) # <<>>
        THEN <<Txt(<<>>), Lit("Description:"), Lit(CodeFence),
               Txt(PreviewDesc(o, vs)), Lit(CodeFence)>>
        ELSE <<>>)

\* status descriptions: a format and its argument
RunningDesc(n) == [fmt |-> "Running OCR on {n} image(s) using {OCR_MODEL_ID}...", arg |-> n]
CompleteDesc == [fmt |-> "OCR complete.", arg |-> 0]
FailedDesc(e) == [fmt |-> "OCR failed: {e}", arg |-> e]
\* a status for a request without images
NoImagesDesc == [fmt |-> "No images detected.", arg |-> 0]
ComposingDesc == [fmt |-> "Composing response using {MAIN_MODEL_ID}...", arg |-> 0]

StatusEvent(description, done, hidden) ==
    [type |-> "status", description |-> description, done |-> done,
     hidden |-> hidden, clear |-> FALSE, content |-> <<>>]

ClearEvent ==
    [type |-> "status", description |-> [fmt |-> "done", arg |-> 0], done |-> TRUE,
     hidden |-> TRUE, clear |-> TRUE, content |-> <<>>]

PreviewEvent(o, vs) ==
    [type |-> "message", description |-> [fmt |-> "", arg |-> 0], done |-> FALSE,
     hidden |-> FALSE, clear |-> FALSE, content |-> PreviewLines(o, vs)]

CompletionKeys == {"Final answer complete.", "Answer composition finished."}

\* f"{description}|{int(done)}"
StatusKey(description, done) == [description |-> description, done |-> done]

\* The exceptions of a run are numbered by who raises them and by their
\* class: 1 the vision call, 2 the emitter, 3 the reasoning call, 4 the
\* extractor, 5 the sanitizer and 7 the lookup of __user__["id"] raise an
\* exception of class Exception; 6 is the emitter and 8 the vision call
\* raising one that is a BaseException only (asyncio.CancelledError,
\* GeneratorExit, KeyboardInterrupt).  0 is no exception.
IsException(exc) == exc \notin {0, 6, 8}

\* the exception the emitter raises for an outcome
EmitterError(outcome) ==
    CASE outcome = "raise" -> 2
      [] outcome = "cancel" -> 6
      [] OTHER -> 0

\* _emit_status_once without its try/except
StatusHandlerMissing(exc) == FALSE

\* whether an exception raised by the emitter inside _emit_status_once is
\* caught by its "except Exception: pass"
StatusHandlerCatches(exc) == IsException(exc)

\* the time recorded before the emitter is awaited, so that it stays recorded
\* when the emitter raises
StatusDeliverRecordsFirst(me, evs, t, description, done, hidden, outcome) ==
    LET me1 == [me EXCEPT !.status_last_emit =
                   [kk \in (DOMAIN @) \cup {StatusKey(description, done)} |->
                       IF kk = StatusKey(description, done) THEN t ELSE @[kk]]]
    IN IF outcome # "ok"
       THEN [self |-> me1, events |-> evs,
             raised |-> IF StatusHandlerCatches(EmitterError(outcome)) THEN 0
                        ELSE EmitterError(outcome),
             emitter_raised |-> TRUE]
       ELSE [self |-> me1,
             events |-> Append(evs, StatusEvent(description, done, hidden)),
             raised |-> 0, emitter_raised |-> FALSE]

\* lines 694-707 of _emit_status_once: the emitter is awaited with the status
\* and, when it returns, the time t read before the await is recorded; when
\* it raises, the exception is dropped if the handler catches it and leaves
\* the method if not
StatusDeliver(me, evs, t, description, done, hidden, outcome) ==
    IF outcome # "ok"
    THEN [self |-> me, events |-> evs,
          raised |-> IF StatusHandlerCatches(EmitterError(outcome)) THEN 0
                     ELSE EmitterError(outcome),
          emitter_raised |-> TRUE]
    ELSE [self |-> [me EXCEPT !.status_last_emit =
                       [kk \in (DOMAIN @) \cup {StatusKey(description, done)} |->
                           IF kk = StatusKey(description, done) THEN t ELSE @[kk]]],
          events |-> Append(evs, StatusEvent(description, done, hidden)),
          raised |-> 0, emitter_raised |-> FALSE]


\* self._status_last_emit.get(key, 0.0)
LastEmit(me, key) ==
    IF key \in DOMAIN me.status_last_emit THEN me.status_last_emit[key] ELSE 0

\* lines 674-692 with the time window as the only de-duplication
StatusCheckTtlOnly(me, t, emitter_present, description, done) ==
    IF ~emitter_present THEN [self |-> me, calls |-> FALSE]
    ELSE [self |-> me,
          calls |-> ~(StatusTtl > 0
                      /\ (t - LastEmit(me, StatusKey(description, done))) < StatusTtl)]

\* lines 674-692 of _emit_status_once, which run without an await: the test
\* for an emitter, the flag of the final-completion markers (tested and set
\* before anything else) and the time window, at the time t read at line 685.
\* The result is the instance state after them and whether the method goes
\* on to await the emitter
StatusCheck(me, t, emitter_present, description, done) ==
    IF ~emitter_present THEN [self |-> me, calls |-> FALSE]
    ELSE IF description.fmt \in CompletionKeys /\ me.completion_emitted
    THEN [self |-> me, calls |-> FALSE]
    ELSE [self |-> IF description.fmt \in CompletionKeys
                   THEN [me EXCEPT !.completion_emitted = TRUE] ELSE me,
          calls |-> ~(StatusTtl > 0
                      /\ (t - LastEmit(me, StatusKey(description, done))) < StatusTtl)]

\* _emit_status_once on the instance state me, at time t, with the events
\* delivered so far, when nothing else runs during its await; outcome is
\* what the emitter does if it is called.  The result carries the exception
\* that leaves the method (0 for none) and whether the emitter raised.
_emit_status_once(me, evs, t, emitter_present, description, done, hidden, outcome) ==
    IF StatusCheck(me, t, emitter_present, description, done).calls
    THEN StatusDeliver(StatusCheck(me, t, emitter_present, description, done).self,
                       evs, t, description, done, hidden, outcome)
    ELSE [self |-> StatusCheck(me, t, emitter_present, description, done).self,
          events |-> evs, raised |-> 0, emitter_raised |-> FALSE]

\* whether _emit_status_once reaches the await of the emitter
StatusAwaits(me, t, emitter_present, description, done) ==
    StatusCheck(me, t, emitter_present, description, done).calls

(***************************************************************************)
(* Objects: the caller's body, its messages list and its messages live on  *)
(* a heap, so that a mutation through an alias is visible to the caller.   *)
(* heap[a] is the object at address a; R(a) refers to it.                  *)
(***************************************************************************)
\* the heap holding a request body: the body dict at address 1, its messages
\* list at address 2, the messages after it
BuildHeap(body) ==
    IF IsList(Get(body, "messages"))
    THEN LET msgs == body.v["messages"].v
         IN << D(WithKey(body.v, "messages", R(2))),
               L([i \in 1..Len(msgs) |-> R(2 + i)]) >> \o msgs
    ELSE <<body>>

BodyAddr == 1

\* the value an object graph denotes
RECURSIVE Deref(_, _)
Deref(h, x) ==
    CASE x.k = "ref" -> Deref(h, h[x.v])
      [] x.k = "dict" -> D([key \in DOMAIN x.v |-> Deref(h, x.v[key])])
      [] x.k = "list" -> L([i \in 1..Len(x.v) |-> Deref(h, x.v[i])])
      [] OTHER -> x

\* an assignment instead of a copy: final_body = body
alias_copy(h, a) == [heap |-> h, addr |-> a]

\* the main call streaming whatever the caller asked for
MainStreamAlways(body) == B(TRUE)

\* line 418: body.get("stream", True)
MainStream(body) == GetDefault(body, "stream", B(TRUE))

\* copy.deepcopy(body): new objects for the dict, the list and every message
deepcopy(h, a) ==
    IF Get(h[a], "messages").k = "ref"
    THEN LET refs == h[h[a].v["messages"].v].v
             n == Len(refs)
             base == Len(h)
         IN [heap |-> h \o [i \in 1..n |-> h[refs[i].v]]
                        \o << L([i \in 1..n |-> R(base + i)]),
                              D(WithKey(h[a].v, "messages", R(base + n + 1))) >>,
             addr |-> base + n + 2]
    ELSE [heap |-> Append(h, h[a]), addr |-> Len(h) + 1]

\* obj[key] = val on the dict at address a
SetItem(h, a, key, val) == [h EXCEPT ![a] = D(WithKey(@.v, key, val))]

\* _sanitize_messages_for_main on the list at address la: a new list of new
\* message dicts (m = dict(msg)), the given list and its messages untouched
SanitizeOnHeap(h, la) ==
    LET refs == h[la].v
        n == Len(refs)
        base == Len(h)
        clean == _sanitize_messages_for_main([i \in 1..n |-> h[refs[i].v]])
    IN [heap |-> h \o clean \o <<L([i \in 1..n |-> R(base + i)])>>,
        addr |-> base + n + 1]

\* the messages the sanitizer is given (final_body.get("messages", []) or []):
\* the objects of the list at the key, none when the key holds no list
MessagesOnHeap(h, a) ==
    IF Get(h[a], "messages").k = "ref"
    THEN LET refs == h[h[a].v["messages"].v].v
         IN [i \in 1..Len(refs) |-> h[refs[i].v]]
    ELSE <<>>

\* line 421 on the dict at address a: its messages replaced by the list the
\* sanitizer returns
SanitizeBody(h, a) ==
    LET clean == IF Get(h[a], "messages").k = "ref"
                 THEN SanitizeOnHeap(h, h[a].v["messages"].v)
                 ELSE [heap |-> Append(h, L(<<>>)), addr |-> Len(h) + 1]
    IN SetItem(clean.heap, a, "messages", R(clean.addr))

\* lst.append(obj) instead of lst.insert(0, obj)
InsertLast(h, la, obj) ==
    LET new == Len(h) + 1
    IN [Append(h, obj) EXCEPT ![la] = L(@.v \o <<R(new)>>)]

\* lst.insert(0, obj) on the list at address la
InsertFirst(h, la, obj) ==
    LET new == Len(h) + 1
    IN [Append(h, obj) EXCEPT ![la] = L(<<R(new)>> \o @.v)]

(***************************************************************************)
(* Inputs                                                                  *)
(***************************************************************************)
u1 == <<"a", ".", "p", "n", "g">>
u2 == <<"b", ".", "p", "n", "g">>
u_pdf == <<"d", ".", "p", "d", "f">>
t_hi == <<"h", "i">>
mime_png == <<"i", "m", "a", "g", "e", "/", "p", "n", "g">>
mime_pdf == <<"a", "p", "p", "l", "i", "c", "a", "t", "i", "o", "n", "/", "p", "d", "f">>

TextPart == D([type |-> S(c_text), text |-> S(t_hi)])
NestedPart(u) == D([type |-> S(c_image_url), image_url |-> D([url |-> S(u)])])
StringPart(u) == D([type |-> S(c_image_url), image_url |-> S(u)])
UntaggedPart(u) == D([url |-> S(u)])
ImageFile(u) == D([type |-> S(mime_png), url |-> S(u)])
PdfFile == D([type |-> S(mime_pdf), url |-> S(u_pdf)])

UserText == D([role |-> S(c_user), content |-> S(t_hi)])
UserImage(u) == D([role |-> S(c_user), content |-> S(t_hi), images |-> L(<<S(u)>>)])
UserTriple(part) ==
    D([role |-> S(c_user), content |-> L(<<TextPart, part>>),
       images |-> L(<<S(u1)>>), files |-> L(<<ImageFile(u1)>>)])
UserParts(part) == D([role |-> S(c_user), content |-> L(<<TextPart, part>>)])
UserPdf == D([role |-> S(c_user), content |-> S(t_hi), files |-> L(<<PdfFile>>)])
AssistantText == D([role |-> S(c_assistant), content |-> S(t_hi)])
SystemText == D([role |-> S(c_system), content |-> S(t_hi)])

\* the conversations a run may be given
Conversations ==
    { <<UserText>>,
      <<UserImage(u1)>>,
      <<UserImage(u1), UserImage(u2)>>,
      <<UserImage(u1), AssistantText, UserText>>,
      <<SystemText, UserImage(u1)>>,
      <<UserTriple(NestedPart(u1))>>,
      <<UserTriple(StringPart(u1))>>,
      <<UserParts(UntaggedPart(u1))>>,
      <<UserParts(NestedPart(u1))>>,
      <<UserPdf>> }

\* the request bodies: a conversation, optionally with top-level images
Bodies ==
    { D([model |-> S(<<"ui-model">>), messages |-> L(c)]) : c \in Conversations }
    \cup { D([model |-> S(<<"ui-model">>), stream |-> B(FALSE),
             messages |-> L(<<UserText>>), images |-> L(<<S(u2)>>)]) }

\* replies of the vision model
ReplyFull == <<"T", "E", "X", "T", ":", "\n", "H", "i", "\n", "-", "-", "-", "\n", "D", "E", "S", "C", "R", "I", "P", "T", "I", "O", "N", ":", "\n", "A", " ", "s", "\n", "-", "-", "-", "\n", "C", "A", "T", "E", "G", "O", "R", "Y", ":", " ", "p", "h", "o", "t", "o">>
ReplyPlain == <<"Y", "o">>
Completion(content) ==
    D([choices |-> L(<<D([message |-> D([role |-> S(c_assistant),
                                         content |-> S(content)])])>>)])
VisionResponses == {Completion(ReplyFull), Completion(ReplyPlain), Completion(<<>>)}

\* the response of the reasoning model
ReasonResponses == {Completion(t_hi)}

\* the caps an administrator may configure
SmallCap == 3
ValveChoices ==
    { [OCR_MAX_CHARS |-> DefaultMaxChars, OCR_DESC_MAX_CHARS |-> DefaultMaxChars,
       SHOW_OCR_RESULTS |-> FALSE],
      [OCR_MAX_CHARS |-> SmallCap, OCR_DESC_MAX_CHARS |-> SmallCap,
       SHOW_OCR_RESULTS |-> TRUE] }

\* time.time() when the run starts, and how far the clock is followed
StartTime == 10
MaxTicks == 1

\* the instance state a run may find: a fresh instance, or one on which an
\* earlier run delivered statuses two seconds ago
FreshSelf ==
    [status_last_emit |-> <<>>, completion_emitted |-> FALSE, composing_active |-> "unset"]
UsedSelf ==
    [status_last_emit |->
        [key \in {StatusKey(RunningDesc(1), FALSE), StatusKey(FailedDesc(1), TRUE),
                  StatusKey(ComposingDesc, FALSE)} |-> StartTime - (StatusTtl - 1)],
     completion_emitted |-> FALSE, composing_active |-> "unset"]

\* what the emitter may do when called: return, raise an Exception, raise
\* an exception that is no Exception
EmitterOutcomes == {"ok", "raise", "cancel"}

\* the __user__ argument: with the id of the user, or without it
UserWithId == D([id |-> S(<<"u", "1">>), name |-> S(<<"n">>)])
UserWithoutId == D([name |-> S(<<"n">>)])

\* The behaviour of the two models a run meets.  script gives the outcome of
\* the vision calls in the order they are issued, a response or None for a
\* call that raises, and is repeated when the run issues more calls; the
\* empty script leaves every outcome open.  reason is the response of the
\* reasoning call, None when it raises, "any" when it is left open.
\* emitter is what the emitter does on every event, "any" when it is left
\* open.
ScriptLen == 2
Scripts == [1..ScriptLen -> VisionResponses \cup {None}]
AnyBehaviour == [script |-> <<>>, reason |-> [k |-> "any", v |-> <<>>], emitter |-> "any"]
Behaviours ==
    [script : Scripts, reason : ReasonResponses \cup {None}, emitter : {"any"}]

\* the outcome the script e gives to the n-th vision call
Scripted(e, n) == e.script[((n - 1) % Len(e.script)) + 1]

\* the responses the n-th vision call may return
VisionAnswers(e, n) ==
    IF e.script = <<>> THEN VisionResponses
    ELSE {Scripted(e, n)} \ {None}

\* the exceptions the n-th vision call may raise; a scripted call that
\* raises, raises an Exception
VisionErrors(e, n) ==
    IF e.script = <<>> THEN {1, 8}
    ELSE IF Scripted(e, n) = None THEN {1} ELSE {}

\* what the emitter may do on an event
EmitterChoices(e) == IF e.emitter = "any" THEN EmitterOutcomes ELSE {e.emitter}

\* the responses the reasoning call may return, and whether it may raise
ReasonAnswers(e) == IF e.reason.k = "any" THEN ReasonResponses ELSE {e.reason} \ {None}
ReasonMayRaise(e) == IF e.reason.k = "any" THEN TRUE ELSE e.reason = None

(***************************************************************************)
(* One run of Pipe.pipe                                                    *)
(***************************************************************************)
VARIABLES
    heap,         \* the objects: the caller's body and the copies pipe makes
    body0,        \* the value of the caller's body when pipe was called
    valves,       \* self.valves
    emitter,      \* whether __event_emitter__ was given
    user,         \* the __user__ argument
    env,          \* the behaviour of the vision and reasoning models
    self,         \* the instance state: _status_last_emit, _completion_emitted,
                  \* _composing_active ("unset" while the attribute does not exist)
    now,          \* time.time()
    pc,           \* the position of the run
    stage,        \* the OCR stage the loop is in
    art,          \* the result of _extract_image_artifacts
    image_parts,  \* the image parts of the current OCR loop
    idx,          \* the position in image_parts
    per,          \* per_texts, per_descs, per_cats
    ocr,          \* ocr_text, ocr_desc, ocr_category
    err,          \* the exception caught by the OCR stage
    final_body,   \* the address of final_body
    calls,        \* the calls to generate_chat_completion, in order
    events,       \* the events delivered by the emitter, in order
    emitter_errors, \* the kinds of event on which the emitter has raised
    result,       \* what pipe returned or raised
    attempts,     \* the calls of _emit_status_once and _wrap_stream made outside a
                  \* run of pipe, in the order they were made
    alone,        \* what the run does when it is the only one and has no emitter
    seen,         \* the await of the emitter the run was suspended in
    other,        \* the other run on the instance, while this one executes
    ocr_raw,      \* a reply of the vision model given to the parser on its own
    parsed_raw,   \* what _parse_ocr_structured_output returned for it
    consumed,     \* the chunks the caller has taken from the response pipe returned
    wrap          \* the calls of _wrap_stream: argument, result, on_done calls of each

vars == <<heap, body0, valves, emitter, user, env, self, now, pc, stage, art, image_parts,
          idx, per, ocr, err, final_body, calls, events, emitter_errors, result,
          attempts, alone, seen, other, ocr_raw, parsed_raw, consumed, wrap>>

\* the variables that a run of pipe does not touch
aside == <<attempts, alone, seen, other, ocr_raw, parsed_raw, consumed, wrap>>

\* not suspended in an await of the emitter; no other run
NotSeen == [pc |-> "none", t |-> 0]
NoRun == [pc |-> "absent"]

\* nothing to compare the run with
NotCompared == <<>>

\* the parser is not exercised on its own
NotParsed == [text |-> <<"?">>, description |-> <<"?">>, category |-> <<"?">>]
NotParsing == ocr_raw = <<>> /\ parsed_raw = NotParsed

\* the caller has taken nothing from the response; _wrap_stream is not called
NotWrapped == <<>>
NotStreaming == consumed = 0 /\ wrap = NotWrapped

inputs == <<body0, valves, emitter, user, env>>
ocrLocals == <<stage, art, image_parts, idx, per, ocr, err>>

EmptyArt == [has_images |-> FALSE, image_urls |-> <<>>, image_files |-> <<>>,
             content_parts |-> <<>>]
NoResult == [kind |-> "none", err |-> 0, resp |-> None]

\* the caller's body as a value
Body == Deref(heap, R(BodyAddr))

Init ==
    /\ body0 \in Bodies
    /\ heap = BuildHeap(body0)
    /\ valves \in ValveChoices
    /\ emitter \in BOOLEAN
    /\ user \in {UserWithId, UserWithoutId}
    /\ env = AnyBehaviour
    /\ self \in {FreshSelf, UsedSelf}
    /\ now = StartTime
    /\ pc = "start"
    /\ stage = "none"
    /\ art = EmptyArt
    /\ image_parts = <<>>
    /\ idx = 1
    /\ per = EmptyPer
    /\ ocr = EmptyOcr
    /\ err = 0
    /\ final_body = 0
    /\ calls = <<>>
    /\ events = <<>>
    /\ emitter_errors = {}
    /\ result = NoResult
    /\ attempts = <<>>
    /\ alone = NotCompared
    /\ seen = NotSeen
    /\ other = NoRun
    /\ NotParsing
    /\ NotStreaming

\* the status the run emits at its position
PendingStatus ==
    CASE pc = "emit_running" ->
           [description |-> RunningDesc(_count_images_for_status(
                                art.image_urls, art.image_files, art.content_parts)),
            done |-> FALSE]
      [] pc = "emit_complete" -> [description |-> CompleteDesc, done |-> TRUE]
      [] pc = "emit_failed" -> [description |-> FailedDesc(err), done |-> TRUE]
      [] pc = "emit_composing" -> [description |-> ComposingDesc, done |-> FALSE]

\* a call of _emit_status_once in the current state; a run that another run
\* overtook while it awaited the emitter goes on after the await, with the
\* time it read before
Emit(description, done, outcome) ==
    IF seen.pc = pc
    THEN StatusDeliver(self, events, seen.t, description, done, FALSE, outcome)
    ELSE _emit_status_once(self, events, now, emitter, description, done, FALSE,
                           outcome)

\* an exception leaves pipe
Raise(e) ==
    /\ pc' = "raised"
    /\ result' = [kind |-> "raised", err |-> e, resp |-> None]

\* line 78: __user__["id"] raises KeyError when the key is absent, and
\* TypeError when __user__ is no dict
UserLookupRaises(u) == ~(IsDict(u) /\ "id" \in DOMAIN u.v)

\* lines 78-86: look the user up, then detect whether the payload contains
\* images; both are outside every try block, so the exception of the lookup
\* (7) and that of the extractor (4) leave pipe
Detect ==
    /\ pc = "start"
    /\ IF UserLookupRaises(user)
       THEN Raise(7) /\ UNCHANGED art
       ELSE IF ExtractRaises(Body)
       THEN Raise(4) /\ UNCHANGED art
       ELSE /\ art' = _extract_image_artifacts(Body)
            /\ pc' = IF art'.has_images THEN "emit_running" ELSE "prepare"
            /\ UNCHANGED result
    /\ UNCHANGED <<heap, inputs, aside, self, now, stage, image_parts, idx, per, ocr, err,
                   final_body, calls, events,
                   emitter_errors>>

\* lines 87-206: count the images, emit the status, normalize the image parts
EmitRunning ==
    /\ pc = "emit_running"
    /\ \E o \in EmitterChoices(env) :
         LET r == Emit(PendingStatus.description, PendingStatus.done, o)
         IN /\ self' = r.self
            /\ events' = r.events
            /\ emitter_errors' = IF r.emitter_raised
                                 THEN emitter_errors \cup {"status"}
                                 ELSE emitter_errors
            /\ IF r.raised # 0
               THEN /\ Raise(r.raised)
                    /\ UNCHANGED <<stage, image_parts, idx, per>>
               ELSE /\ image_parts' = _normalize_to_image_content_parts_inline(
                                          art.image_urls, art.image_files,
                                          art.content_parts)
                    /\ per' = EmptyPer
                    /\ idx' = 1
                    /\ stage' = "primary"
                    /\ pc' = "loop"
                    /\ UNCHANGED result
    /\ UNCHANGED <<heap, inputs, aside, now, art, ocr, err, final_body, calls>>

\* the OCR requests issued without awaiting each one before the next
VisionIssueNoAwait ==
    /\ pc = "loop"
    /\ idx <= Len(image_parts)
    /\ calls' = Append(calls, [kind |-> "vision", stage |-> stage,
                               request |-> SingleOcrBody(image_parts[idx]),
                               outcome |-> "pending"])
    /\ idx' = idx + 1
    /\ UNCHANGED <<heap, inputs, aside, self, now, pc, stage, art, image_parts, per, ocr,
                   err, final_body, events, emitter_errors, result>>

\* the OCR request for the next image is issued (lines 232, 399, 567)
VisionIssue ==
    /\ pc = "loop"
    /\ idx <= Len(image_parts)
    /\ calls' = Append(calls, [kind |-> "vision", stage |-> stage,
                               request |-> SingleOcrBody(image_parts[idx]),
                               outcome |-> "pending"])
    /\ pc' = "wait"
    /\ UNCHANGED <<heap, inputs, aside, self, now, ocrLocals, final_body, events, result,
                   emitter_errors>>

\* per-image results appended by the loop of the given stage
AppendResult(st, p, parsed) ==
    IF st = "incremental"
    THEN [texts |-> IF parsed.text # <<>> THEN Append(p.texts, parsed.text)
                    ELSE p.texts,
          descs |-> IF parsed.description # <<>>
                    THEN Append(p.descs, parsed.description) ELSE p.descs,
          cats |-> IF parsed.category # <<>> THEN Append(p.cats, parsed.category)
                   ELSE p.cats]
    ELSE [texts |-> Append(p.texts, parsed.text),
          descs |-> Append(p.descs, parsed.description),
          cats |-> Append(p.cats, parsed.category)]

\* the pending OCR call returns a response
VisionReturn ==
    /\ pc = "wait"
    /\ \E resp \in VisionAnswers(env, Len(calls)) :
         LET parsed == _parse_ocr_structured_output(_extract_text_from_response(resp))
         IN per' = AppendResult(stage, per, parsed)
    /\ calls' = [calls EXCEPT ![Len(calls)].outcome = "returned"]
    /\ idx' = idx + 1
    /\ pc' = "loop"
    /\ UNCHANGED <<heap, inputs, aside, self, now, stage, art, image_parts, ocr, err,
                   final_body, events, result,
                   emitter_errors>>

\* the OCR stages without their except branches: the error leaves pipe
VisionErrorPropagates(st) == "raised"

\* whether the "except Exception" of an OCR stage (lines 300, 411, 600)
\* catches the exception
OcrHandlerCatches(exc) == IsException(exc)

\* where the run continues after an exception was caught in the given
\* stage: the except branches at lines 300, 411 and 600
AfterVisionError(st) ==
    CASE st = "primary" -> "emit_failed"
      [] st = "second" -> "prepare"
      [] OTHER -> "compose"

\* the pending OCR call raises: an Exception is caught by the stage, any
\* other exception leaves pipe
VisionRaise ==
    /\ pc = "wait"
    /\ \E e \in VisionErrors(env, Len(calls)) :
         /\ calls' = [calls EXCEPT ![Len(calls)].outcome =
                                      IF IsException(e) THEN "raised" ELSE "cancelled"]
         /\ IF OcrHandlerCatches(e) /\ AfterVisionError(stage) # "raised"
            THEN /\ pc' = AfterVisionError(stage)
                 /\ UNCHANGED result
                 /\ IF stage = "primary"
                    THEN ocr' = EmptyOcr /\ err' = e
                    ELSE UNCHANGED <<ocr, err>>
            ELSE Raise(e) /\ UNCHANGED <<ocr, err>>
    /\ UNCHANGED <<heap, inputs, aside, self, now, stage, art, image_parts, idx, per,
                   final_body, events,
                   emitter_errors>>

\* a preview sent whenever an emitter is given
ShowsPreviewAlways == emitter

\* line 247: if __event_emitter__ and self.valves.SHOW_OCR_RESULTS
ShowsPreview == emitter /\ valves.SHOW_OCR_RESULTS

\* lines 240-246: the primary loop is over, combine the per-image results
PrimaryDone ==
    /\ pc = "loop" /\ stage = "primary" /\ idx > Len(image_parts)
    /\ ocr' = AggregateResults(per)
    /\ pc' = IF ShowsPreview THEN "preview" ELSE "emit_complete"
    /\ UNCHANGED <<heap, inputs, aside, self, now, stage, art, image_parts, idx, per, err,
                   final_body, calls, events, result,
                   emitter_errors>>

\* lines 247-295: the preview message event; an Exception of the emitter is
\* caught by the except branch at line 300, any other exception leaves pipe
Preview ==
    /\ pc = "preview"
    /\ \E o \in EmitterChoices(env) :
         IF o = "ok"
         THEN /\ events' = Append(events, PreviewEvent(ocr, valves))
              /\ pc' = "emit_complete"
              /\ UNCHANGED <<ocr, err, emitter_errors, result>>
         ELSE /\ emitter_errors' = emitter_errors \cup {"message"}
              /\ UNCHANGED events
              /\ IF OcrHandlerCatches(EmitterError(o))
                 THEN /\ ocr' = EmptyOcr
                      /\ err' = EmitterError(o)
                      /\ pc' = "emit_failed"
                      /\ UNCHANGED result
                 ELSE Raise(EmitterError(o)) /\ UNCHANGED <<ocr, err>>
    /\ UNCHANGED <<heap, inputs, aside, self, now, stage, art, image_parts, idx, per,
                   final_body, calls>>

\* lines 297-299, inside the try: an exception that leaves
\* _emit_status_once is caught at line 300 when it is an Exception
EmitComplete ==
    /\ pc = "emit_complete"
    /\ \E o \in EmitterChoices(env) :
         LET r == Emit(PendingStatus.description, PendingStatus.done, o)
         IN /\ self' = r.self
            /\ events' = r.events
            /\ emitter_errors' = IF r.emitter_raised
                                 THEN emitter_errors \cup {"status"}
                                 ELSE emitter_errors
            /\ IF r.raised = 0
               THEN pc' = "second" /\ UNCHANGED <<ocr, err, result>>
               ELSE IF OcrHandlerCatches(r.raised)
               THEN /\ ocr' = EmptyOcr /\ err' = r.raised /\ pc' = "emit_failed"
                    /\ UNCHANGED result
               ELSE Raise(r.raised) /\ UNCHANGED <<ocr, err>>
    /\ UNCHANGED <<heap, inputs, aside, now, stage, art, image_parts, idx, per,
                   final_body, calls>>

\* lines 300-305, the except branch
EmitFailed ==
    /\ pc = "emit_failed"
    /\ \E o \in EmitterChoices(env) :
         LET r == Emit(PendingStatus.description, PendingStatus.done, o)
         IN /\ self' = r.self
            /\ events' = r.events
            /\ emitter_errors' = IF r.emitter_raised
                                 THEN emitter_errors \cup {"status"}
                                 ELSE emitter_errors
            /\ IF r.raised # 0
               THEN Raise(r.raised)
               ELSE pc' = "second" /\ UNCHANGED result
    /\ UNCHANGED <<heap, inputs, aside, now, ocrLocals, final_body, calls>>

\* lines 367-373: images were detected and the OCR variables are all empty
SecondStart ==
    /\ pc = "second"
    /\ LET parts == _normalize_to_image_content_parts_inline(
                        art.image_urls, art.image_files, art.content_parts)
       IN IF art.has_images /\ ~HasOcr(ocr) /\ parts # <<>>
          THEN /\ image_parts' = parts
               /\ per' = EmptyPer
               /\ idx' = 1
               /\ stage' = "second"
               /\ pc' = "loop"
          ELSE /\ pc' = "prepare"
               /\ UNCHANGED <<image_parts, per, idx, stage>>
    /\ UNCHANGED <<heap, inputs, aside, self, now, art, ocr, err, final_body, calls,
                   events, result,
                   emitter_errors>>

\* lines 407-410: the second loop is over
SecondDone ==
    /\ pc = "loop" /\ stage = "second" /\ idx > Len(image_parts)
    /\ ocr' = AggregateResults(per)
    /\ pc' = "prepare"
    /\ UNCHANGED <<heap, inputs, aside, self, now, stage, art, image_parts, idx, per, err,
                   final_body, calls, events, result,
                   emitter_errors>>

\* lines 414-538: final_body, its sanitized messages, and the incremental
\* scan; the sanitizer is called outside every try block, so its exception
\* (5) leaves pipe; an exception of the scan abandons the incremental stage
Prepare ==
    /\ pc = "prepare"
    /\ LET copy == deepcopy(heap, BodyAddr)
           h1 == SetItem(copy.heap, copy.addr, "model", S(MAIN_MODEL_ID))
           h2 == SetItem(h1, copy.addr, "stream", MainStream(Deref(h1, R(BodyAddr))))
       IN /\ final_body' = copy.addr
          /\ IF SanitizeRaises(MessagesOnHeap(h2, copy.addr))
             THEN /\ heap' = h2
                  /\ Raise(5)
                  /\ UNCHANGED <<image_parts, stage, per, idx>>
             ELSE LET h3 == SanitizeBody(h2, copy.addr)
                  IN /\ heap' = h3
                     /\ image_parts' = NewImageParts(Deref(h3, R(BodyAddr)))
                     /\ stage' = "incremental"
                     /\ per' = EmptyPer
                     /\ idx' = 1
                     /\ pc' = "loop"
                     /\ UNCHANGED result
    /\ UNCHANGED <<inputs, aside, self, now, art, ocr, err, calls, events,
                   emitter_errors>>

\* lines 579-599: the incremental loop is over, merge into the aggregate
IncrementalDone ==
    /\ pc = "loop" /\ stage = "incremental" /\ idx > Len(image_parts)
    /\ ocr' = IF image_parts # <<>> THEN MergeIncremental(ocr, per) ELSE ocr
    /\ pc' = "compose"
    /\ UNCHANGED <<heap, inputs, aside, self, now, stage, art, image_parts, idx, per, err,
                   final_body, calls, events, result,
                   emitter_errors>>

\* lines 604-633: truncate and insert the OCR system message
Compose ==
    /\ pc = "compose"
    /\ IF HasOcr(ocr)
       THEN /\ ocr' = [ocr EXCEPT !.text = InjectedText(ocr, valves),
                                  !.desc = InjectedDesc(ocr, valves)]
            /\ heap' = InsertFirst(heap, heap[final_body].v["messages"].v,
                                   OcrContext(ocr, valves))
       ELSE UNCHANGED <<ocr, heap>>
    /\ pc' = "emit_composing"
    /\ UNCHANGED <<inputs, aside, self, now, stage, art, image_parts, idx, per, err,
                   final_body, calls, events, result,
                   emitter_errors>>

\* lines 637-642
EmitComposing ==
    /\ pc = "emit_composing"
    /\ \E o \in EmitterChoices(env) :
         LET r == Emit(PendingStatus.description, PendingStatus.done, o)
         IN /\ self' = r.self
            /\ events' = r.events
            /\ emitter_errors' = IF r.emitter_raised
                                 THEN emitter_errors \cup {"status"}
                                 ELSE emitter_errors
            /\ IF r.raised # 0
               THEN Raise(r.raised)
               ELSE pc' = "reason" /\ UNCHANGED result
    /\ UNCHANGED <<heap, inputs, aside, now, ocrLocals, final_body, calls>>

\* line 644: the reasoning call is issued with final_body
ReasonIssue ==
    /\ pc = "reason"
    /\ calls' = Append(calls, [kind |-> "reasoning", stage |-> "final",
                               request |-> Deref(heap, R(final_body)),
                               outcome |-> "pending"])
    /\ pc' = "reason_wait"
    /\ UNCHANGED <<heap, inputs, aside, self, now, ocrLocals, final_body, events, result,
                   emitter_errors>>

\* the reasoning call returns
ReasonReturn ==
    /\ pc = "reason_wait"
    /\ \E resp \in ReasonAnswers(env) :
         result' = [kind |-> "pending", err |-> 0, resp |-> resp]
    /\ calls' = [calls EXCEPT ![Len(calls)].outcome = "returned"]
    /\ pc' = "clear"
    /\ UNCHANGED <<heap, inputs, aside, self, now, ocrLocals, final_body, events,
                   emitter_errors>>

\* the error of the reasoning call caught, and the run going on to the
\* clear event and a normal return without a response
ReasonRaiseCaught ==
    /\ pc = "reason_wait"
    /\ ReasonMayRaise(env)
    /\ calls' = [calls EXCEPT ![Len(calls)].outcome = "raised"]
    /\ result' = [kind |-> "pending", err |-> 0, resp |-> None]
    /\ pc' = "clear"
    /\ UNCHANGED <<heap, inputs, aside, self, now, ocrLocals, final_body, events,
                   emitter_errors>>

\* the reasoning call raises: nothing in pipe catches it
ReasonRaise ==
    /\ pc = "reason_wait"
    /\ ReasonMayRaise(env)
    /\ calls' = [calls EXCEPT ![Len(calls)].outcome = "raised"]
    /\ Raise(3)
    /\ UNCHANGED <<heap, inputs, aside, self, now, ocrLocals, final_body, events,
                   emitter_errors>>

\* whether the "except Exception" around the clear event (lines 648-662)
\* catches the exception
ClearHandlerCatches(exc) == IsException(exc)

\* the clear event sent through the de-duplication cache of the instance
SendClearOnce(me, evs, t, outcome) ==
    LET key == StatusKey(ClearEvent.description, TRUE)
        last == IF key \in DOMAIN me.status_last_emit
                THEN me.status_last_emit[key] ELSE 0
    IN IF StatusTtl > 0 /\ (t - last) < StatusTtl
       THEN [self |-> me, events |-> evs, emitter_raised |-> FALSE]
       ELSE IF outcome # "ok"
       THEN [self |-> me, events |-> evs, emitter_raised |-> TRUE]
       ELSE [self |-> [me EXCEPT !.status_last_emit =
                          [kk \in (DOMAIN @) \cup {key} |->
                              IF kk = key THEN t ELSE @[kk]]],
             events |-> Append(evs, ClearEvent), emitter_raised |-> FALSE]

\* lines 649-660: the emitter is awaited directly with the clear event; the
\* instance is not consulted and not changed
SendClear(me, evs, t, outcome) ==
    IF outcome # "ok"
    THEN [self |-> me, events |-> evs, emitter_raised |-> TRUE]
    ELSE [self |-> me, events |-> Append(evs, ClearEvent), emitter_raised |-> FALSE]

\* lines 646-664: the clear event, then return resp
Clear ==
    /\ pc = "clear"
    /\ \E o \in EmitterChoices(env) :
         LET r == IF emitter THEN SendClear(self, events, now, o)
                  ELSE [self |-> self, events |-> events, emitter_raised |-> FALSE]
         IN /\ emitter_errors' = IF r.emitter_raised
                                 THEN emitter_errors \cup {"clear"}
                                 ELSE emitter_errors
            /\ self' = r.self
            /\ IF r.emitter_raised /\ ~ClearHandlerCatches(EmitterError(o))
               THEN Raise(EmitterError(o)) /\ UNCHANGED events
               ELSE /\ events' = r.events
                    /\ pc' = "done"
                    /\ result' = [result EXCEPT !.kind = "returned"]
    /\ UNCHANGED <<heap, inputs, aside, now, ocrLocals, final_body, calls>>

\* the positions a run with an emitter reaches from an await of the emitter:
\* after the running status (line 133), the preview (line 283, or line 303
\* when the emitter raised), the complete or failed status (lines 297, 303),
\* the composing status (line 637) and the clear event (line 650), and where
\* an exception of the emitter leaves pipe
AfterEmitter ==
    {"loop", "emit_complete", "emit_failed", "second", "reason", "done", "raised"}

\* the other run on the instance is suspended in an await
OtherSuspended == other.pc \notin {"absent", "start", "done", "raised"}

\* time passes while a run is suspended: in a completion call, or in an
\* await of the emitter, whose status records the time read before the await
\* (line 685), so that the time that passed shows once the await is over, or
\* while the other run is suspended and this one executes
Tick ==
    /\ IF pc \in {"wait", "reason_wait"} THEN TRUE
       ELSE IF emitter /\ pc \in AfterEmitter THEN TRUE
       ELSE OtherSuspended
    /\ now < StartTime + MaxTicks
    /\ now' = now + 1
    /\ UNCHANGED <<heap, inputs, aside, self, pc, ocrLocals, final_body, calls, events,
                   result,
                   emitter_errors>>

Next ==
    \/ Detect
    \/ EmitRunning
    \/ VisionIssue
    \/ VisionReturn
    \/ VisionRaise
    \/ PrimaryDone
    \/ Preview
    \/ EmitComplete
    \/ EmitFailed
    \/ SecondStart
    \/ SecondDone
    \/ Prepare
    \/ IncrementalDone
    \/ Compose
    \/ EmitComposing
    \/ ReasonIssue
    \/ ReasonReturn
    \/ ReasonRaise
    \/ Clear
    \/ Tick

Spec == Init /\ [][Next]_vars

(***************************************************************************)
(* Properties                                                              *)
(***************************************************************************)
VisionCalls == {i \in DOMAIN calls : calls[i].kind = "vision"}
ReasoningCalls == {i \in DOMAIN calls : calls[i].kind = "reasoning"}
PendingCalls == {i \in DOMAIN calls : calls[i].outcome = "pending"}
Finished == pc \in {"done", "raised"}

\* the call ended with an exception, of class Exception or not
HasRaised(c) == c.outcome \in {"raised", "cancelled"}

\* the image part and the locator an OCR call carries
CallImagePart(c) == c.request.v["messages"].v[2].v["content"].v[2]
CallLocator(c) == PartKey(CallImagePart(c))

\* the messages of a completion request
RequestMessages(c) == c.request.v["messages"].v

\* C1: when the extractor finds no image artifact, no completion call goes to
\* the vision model at any stage and the reasoning call is the only call.
C1_NoVisionCallWithoutImages ==
    (~_extract_image_artifacts(body0).has_images) =>
        /\ VisionCalls = {}
        /\ (pc = "done" => Len(calls) = 1)

\* every OCR call of the run raised an Exception, and there was at least one
AllVisionRaised ==
    /\ VisionCalls # {}
    /\ \A i \in VisionCalls : calls[i].outcome = "raised"

\* every OCR call of the run raised an exception of whatever class
AllVisionEnded ==
    /\ VisionCalls # {}
    /\ \A i \in VisionCalls : HasRaised(calls[i])

\* the failed OCR does not end the run: pipe raises only what the reasoning
\* call raised (3) or what the emitter raised past the handlers (6), and
\* unless the emitter ended the run the reasoning call is issued once, with
\* the sanitized original conversation
RunSurvivesOcr ==
    /\ result.kind = "raised" => result.err \in {3, 6}
    /\ result.err # 6 => Cardinality(ReasoningCalls) = 1
    /\ \A i \in ReasoningCalls :
          RequestMessages(calls[i]) = _sanitize_messages_for_main(MessagesOf(body0))

\* C2 as stated: in a run with images in which every vision call raises,
\* whatever the class of the exception, pipe does not raise because of it,
\* the reasoning call is issued exactly once, and it is given the sanitized
\* original conversation with no OCR message injected.
C2_AnyVisionErrorNotFatal ==
    (Finished /\ art.has_images /\ AllVisionEnded) => RunSurvivesOcr

\* C2, amended: in a run with images in which every vision call raises an
\* exception of class Exception, pipe does not raise because of it, the
\* reasoning call is issued exactly once, and it is given the sanitized
\* original conversation with no OCR message injected.
C2_OcrFailureNotFatal ==
    (Finished /\ art.has_images /\ AllVisionRaised) => RunSurvivesOcr

C2_Witness ==
    /\ pc = "done"
    /\ AllVisionRaised
    /\ {calls[i].stage : i \in VisionCalls} = {"primary", "second", "incremental"}

\* C3: after a vision call for an image raised, no later vision call of the
\* run carries the same image, and the reasoning call is attempted once.
C3_SingleAttempt ==
    /\ \A i, j \in VisionCalls :
          (i < j /\ HasRaised(calls[i])) =>
              ~KeyEq(CallLocator(calls[i]), CallLocator(calls[j]))
    /\ Cardinality(ReasoningCalls) <= 1

\* C4: completion calls form one sequence: at most one call is pending, the
\* reasoning call is the last call and is issued when every vision call has
\* returned or raised, and a run that reaches the reasoning stage issues
\* exactly one reasoning call.
C4_OneCallAtATime ==
    /\ Cardinality(PendingCalls) <= 1
    /\ \A i \in ReasoningCalls :
          /\ i = Len(calls)
          /\ \A j \in 1..(i - 1) :
                calls[j].kind = "vision" /\ calls[j].outcome # "pending"
    /\ (pc \in {"reason_wait", "clear", "done"} => Cardinality(ReasoningCalls) = 1)
    /\ (pc \in {"start", "emit_running", "loop", "wait", "preview", "emit_complete",
                "emit_failed", "second", "prepare", "compose", "emit_composing",
                "reason"} => ReasoningCalls = {})

C4_Witness ==
    /\ pc = "done"
    /\ Cardinality(VisionCalls) >= 2
    /\ Cardinality({CallLocator(calls[i])[2] : i \in VisionCalls}) >= 2

\* C5: in a run where no completion call raises, the incremental stage sends
\* to the vision model no image that the primary stage of the run has sent.
C5_NoImageTwice ==
    (\A i \in DOMAIN calls : ~HasRaised(calls[i])) =>
        \A i, j \in VisionCalls :
            (calls[i].stage = "primary" /\ calls[j].stage = "incremental") =>
                ~KeyEq(CallLocator(calls[i]), CallLocator(calls[j]))

\* C6: the request sent to the reasoning model has no images or files key on
\* any message and no content part the extractor classifies as an image part.
C6_NoImagePayload ==
    \A i \in ReasoningCalls :
        LET msgs == RequestMessages(calls[i])
        IN \A n \in 1..Len(msgs) :
              /\ ~HasKey(msgs[n], "images")
              /\ ~HasKey(msgs[n], "files")
              /\ IsList(Get(msgs[n], "content")) =>
                    \A q \in 1..Len(Get(msgs[n], "content").v) :
                        ~IsImagePart(Get(msgs[n], "content").v[q])

\* a message is the injected OCR system message
IsOcrMessage(m) ==
    /\ Get(m, "role") = S(c_system)
    /\ Get(m, "content").k = "composed"
    /\ Get(m, "content").v # <<>>
    /\ Get(m, "content").v[1].v =
          <<"Image understanding results extracted from user-provided image(s).">>

\* the section headers of a composed text, in order
RECURSIVE SectionHeaders(_)
SectionHeaders(lines) ==
    IF lines = <<>> THEN <<>>
    ELSE (IF Head(lines).k = "lit"
             /\ Head(lines).v \in {<<"OCR_TEXT:">>, <<"OCR_DESCRIPTION:">>}
          THEN Head(lines).v
          ELSE IF Head(lines).k = "OCR_CATEGORY: " THEN <<"OCR_CATEGORY:">>
          ELSE <<>>)
         \o SectionHeaders(Tail(lines))

\* C7: the OCR system message is injected iff one of text, description and
\* category is non-empty; it is then the first message and the only one
\* added, the original messages follow in order, and it has the OCR_TEXT,
\* OCR_DESCRIPTION and OCR_CATEGORY sections in that order, each iff its value
\* is non-empty; otherwise the conversation has as many messages as the input.
C7_InjectionShape ==
    \A i \in ReasoningCalls :
        LET msgs == RequestMessages(calls[i])
            orig == MessagesOf(body0)
            injected == {n \in 1..Len(msgs) : IsOcrMessage(msgs[n])}
        IN /\ HasOcr(ocr) <=> injected # {}
           /\ HasOcr(ocr) =>
                 /\ injected = {1}
                 /\ Len(msgs) = Len(orig) + 1
                 /\ \A n \in 1..Len(orig) :
                       /\ Get(msgs[n + 1], "role") = Get(orig[n], "role")
                       /\ msgs[n + 1] = SanitizeMessage(orig[n])
                 /\ SectionHeaders(Get(msgs[1], "content").v) =
                       (IF ocr.text # <<>> THEN <<"OCR_TEXT:">> ELSE <<>>)
                       \o (IF ocr.desc # <<>> THEN <<"OCR_DESCRIPTION:">> ELSE <<>>)
                       \o (IF ocr.category # <<>> THEN <<"OCR_CATEGORY:">> ELSE <<>>)
           /\ ~HasOcr(ocr) => Len(msgs) = Len(orig)

C7_Witness ==
    /\ pc = "done"
    /\ ocr.text # <<>> /\ ocr.desc = <<>> /\ ocr.category = <<>>
    /\ Len(MessagesOf(body0)) >= 2
    /\ IsOcrMessage(RequestMessages(calls[Len(calls)])[1])

\* a locator occurs in the images list, in a file descriptor and in a content
\* part of the last message of the body
InAllThree(body, u) ==
    LET msgs == MessagesOf(body)
        m == msgs[Len(msgs)]
    IN /\ msgs # <<>>
       /\ \E n \in 1..Len(ListAt(m, "images")) : ListAt(m, "images")[n] = S(u)
       /\ \E n \in 1..Len(ListAt(m, "files")) :
             FileUrl(ListAt(m, "files")[n]) = S(u)
       /\ \E n \in 1..Len(ListAt(m, "content")) :
             /\ IsImagePart(ListAt(m, "content")[n])
             /\ KeyEq(PartKey(ListAt(m, "content")[n]), <<"str", u>>)

\* C8: a locator present in the images list, a file descriptor and a content
\* part at once yields exactly one image reference for OCR and at most one
\* vision call in the primary stage, whatever the shape of the content part.
C8_OneReferencePerLocator ==
    \A u \in {u1, u2} :
        (InAllThree(body0, u) /\ stage = "primary") =>
            /\ Cardinality({n \in 1..Len(image_parts) :
                              KeyEq(PartKey(image_parts[n]), <<"str", u>>)}) = 1
            /\ Cardinality({i \in VisionCalls :
                              /\ calls[i].stage = "primary"
                              /\ KeyEq(CallLocator(calls[i]), <<"str", u>>)}) <= 1

\* C9: the caller's body, its messages list and its messages keep the values
\* they had when pipe was called.
C9_BodyNotMutated ==
    /\ Body = body0
    /\ LET before == BuildHeap(body0)
       IN \A a \in 1..Len(before) : heap[a] = before[a]

C9_Witness ==
    /\ pc = "done"
    /\ \E n \in 1..Len(MessagesOf(body0)) : HasKey(MessagesOf(body0)[n], "images")
    /\ IsOcrMessage(RequestMessages(calls[Len(calls)])[1])
    /\ \A n \in 1..Len(RequestMessages(calls[Len(calls)])) :
          ~HasKey(RequestMessages(calls[Len(calls)])[n], "images")

\* the run went on after the emitter raised: the reasoning call is issued,
\* and when it returns its response is what pipe returns
RunSurvivesEmitter ==
    /\ Cardinality(ReasoningCalls) = 1
    /\ calls[Len(calls)].kind = "reasoning"
    /\ (calls[Len(calls)].outcome = "returned" =>
           /\ pc = "done"
           /\ result.kind = "returned"
           /\ result.resp \in ReasonResponses)

\* C10 as stated: no exception raised by the emitter, whatever its class,
\* leaves pipe: whatever events the emitter raised on, the reasoning call is
\* issued, and when it returns its response is what pipe returns.
C10_NoEmitterExceptionLeaves ==
    /\ (result.kind = "raised" => result.err \notin {2, 6})
    /\ (Finished /\ emitter_errors # {} /\ result.err # 8) =>
          RunSurvivesEmitter

\* C10, amended: no exception of class Exception raised by the emitter
\* leaves pipe: in a run that no other exception than an Exception of the
\* emitter or of a vision call interrupts, whatever events the emitter raised
\* on, the reasoning call is issued, and when it returns its response is what
\* pipe returns.
C10_EmitterErrorsSwallowed ==
    /\ (result.kind = "raised" => result.err # 2)
    /\ (Finished /\ emitter_errors # {} /\ result.err \notin {6, 8}) =>
          RunSurvivesEmitter

C10_Witness ==
    /\ pc = "done"
    /\ emitter_errors = {"status", "message", "clear"}
    /\ result.kind = "returned"

(***************************************************************************)
(* A run of pipe as a function of its request, the valves and the          *)
(* behaviour of the two models: what lines 65-664 compute when no emitter  *)
(* is given, so that nothing of it depends on the instance state, on the   *)
(* clock or on the emitter.                                                *)
(***************************************************************************)
\* one OCR loop (lines 209-239, 375-406, 543-577) over parts from position i,
\* after n vision calls were issued
RECURSIVE OcrLoop(_, _, _, _, _, _)
OcrLoop(st, parts, i, e, n, p) ==
    IF i > Len(parts)
    THEN [requests |-> <<>>, per |-> p, raised |-> FALSE, n |-> n]
    ELSE IF Scripted(e, n + 1) = None
    THEN [requests |-> <<SingleOcrBody(parts[i])>>, per |-> p, raised |-> TRUE,
          n |-> n + 1]
    ELSE LET parsed == _parse_ocr_structured_output(
                           _extract_text_from_response(Scripted(e, n + 1)))
             r == OcrLoop(st, parts, i + 1, e, n + 1, AppendResult(st, p, parsed))
         IN [r EXCEPT !.requests = <<SingleOcrBody(parts[i])>> \o @]

\* a loop that is not entered
NoLoop(n) == [requests |-> <<>>, per |-> EmptyPer, raised |-> TRUE, n |-> n]

\* final_body (lines 414-423 and 604-633) as a value
FinalBody(body, o, vs) ==
    D(WithKey(WithKey(WithKey(body.v, "model", S(MAIN_MODEL_ID)),
                      "stream", MainStream(body)),
              "messages",
              L((IF HasOcr(o) THEN <<OcrContext(o, vs)>> ELSE <<>>)
                \o _sanitize_messages_for_main(MessagesOf(body)))))

\* the incremental stage and the reasoning call, after the aggregate o; an
\* exception of the sanitizer (line 421) leaves pipe before both
AloneFinal(body, vs, e, requests, o, s3) ==
    LET merged == IF ~s3.raised /\ NewImageParts(body) # <<>>
                  THEN MergeIncremental(o, s3.per) ELSE o
    IN IF SanitizeRaises(MessagesOf(body))
       THEN [requests |-> requests, ocr |-> o, kind |-> "raised", resp |-> None]
       ELSE [requests |-> requests \o s3.requests \o <<FinalBody(body, merged, vs)>>,
             ocr |-> IF HasOcr(merged)
                     THEN [merged EXCEPT !.text = InjectedText(merged, vs),
                                         !.desc = InjectedDesc(merged, vs)]
                     ELSE merged,
             kind |-> IF e.reason = None THEN "raised" ELSE "returned",
             resp |-> e.reason]

\* the second OCR block, after the primary aggregate o
AloneSecond(body, vs, e, parts, o, s1) ==
    LET s2 == IF parts # <<>> /\ ~HasOcr(o)
              THEN OcrLoop("second", parts, 1, e, s1.n, EmptyPer) ELSE NoLoop(s1.n)
        o2 == IF s2.raised THEN o ELSE AggregateResults(s2.per)
    IN AloneFinal(body, vs, e, s1.requests \o s2.requests, o2,
                  OcrLoop("incremental", NewImageParts(body), 1, e, s2.n, EmptyPer))

\* the primary stage with the image parts of the request
AlonePrimary(body, vs, e, preview_raised, has_images, parts) ==
    LET s1 == IF has_images THEN OcrLoop("primary", parts, 1, e, 0, EmptyPer)
              ELSE NoLoop(0)
        o1 == IF s1.raised \/ preview_raised THEN EmptyOcr
              ELSE AggregateResults(s1.per)
    IN AloneSecond(body, vs, e, IF has_images THEN parts ELSE <<>>, o1, s1)

\* the run on body with the valves vs against the behaviour e;
\* preview_raised tells whether the emitter refuses the preview message
RunAlone(body, vs, e, preview_raised) ==
    LET a == _extract_image_artifacts(body)
    IN IF ExtractRaises(body)
       THEN [requests |-> <<>>, ocr |-> EmptyOcr, kind |-> "raised", resp |-> None]
       ELSE AlonePrimary(body, vs, e, preview_raised, a.has_images,
                         _normalize_to_image_content_parts_inline(
                             a.image_urls, a.image_files, a.content_parts))

(***************************************************************************)
(* Runs against a given behaviour of the two models                        *)
(***************************************************************************)
\* the requests of a run whose models follow a script
ScriptedBodies ==
    { D([model |-> S(<<"ui-model">>), messages |-> L(c)]) :
        c \in { <<UserText>>, <<UserImage(u1)>>, <<UserTriple(StringPart(u1))>> } }

\* the variables of a run before pipe is entered, called for a user who
\* has an id
FreshRun ==
    /\ heap = BuildHeap(body0)
    /\ user = UserWithId
    /\ pc = "start"
    /\ stage = "none"
    /\ art = EmptyArt
    /\ image_parts = <<>>
    /\ idx = 1
    /\ per = EmptyPer
    /\ ocr = EmptyOcr
    /\ err = 0
    /\ final_body = 0
    /\ calls = <<>>
    /\ events = <<>>
    /\ emitter_errors = {}
    /\ result = NoResult

InitScripted ==
    /\ body0 \in ScriptedBodies
    /\ valves \in ValveChoices
    /\ emitter \in BOOLEAN
    /\ env \in Behaviours
    /\ self \in {FreshSelf, UsedSelf}
    /\ now = StartTime
    /\ FreshRun
    /\ attempts = <<>>
    /\ alone = [p \in BOOLEAN |-> RunAlone(body0, valves, env, p)]
    /\ seen = NotSeen
    /\ other = NoRun
    /\ NotParsing
    /\ NotStreaming

SpecScripted == InitScripted /\ [][Next]_vars

\* the requests of the completion calls made so far
Requests(cs) == [i \in DOMAIN cs |-> cs[i].request]

\* s is the beginning of t
IsPrefix(s, t) == Len(s) <= Len(t) /\ s = SubSeq(t, 1, Len(s))

\* the run without emitter against the same behaviour of the two models
WithoutEmitter == alone[FALSE]

\* C11: whatever the emitter does (absent, succeeding, raising), the
\* completion calls made so far are the first calls of the run without
\* emitter that meets the same behaviour of the vision and reasoning models,
\* and a finished run has made all of them and has the same result; a run
\* that an exception of the emitter outside class Exception ended is left
\* aside.
C11_NotifierIndependence ==
    /\ IsPrefix(Requests(calls), WithoutEmitter.requests)
    /\ (pc \in {"done", "raised"} /\ result.err # 6) =>
         /\ Requests(calls) = WithoutEmitter.requests
         /\ result.kind = WithoutEmitter.kind
         /\ result.resp = WithoutEmitter.resp

(***************************************************************************)
(* _emit_status_once called again and again on one instance, by callers    *)
(* that may overlap: a call that awaits the emitter is suspended there      *)
(* (line 694) while the clock runs and other calls are made.                *)
(***************************************************************************)
\* how many calls are followed, and for how many seconds
MaxAttempts == 3
MaxWait == 3

\* the final-completion markers
FinalDesc == [fmt |-> "Final answer complete.", arg |-> 0]
FinishedDesc == [fmt |-> "Answer composition finished.", arg |-> 0]
MarkerDescriptions == {FinalDesc, FinishedDesc}

\* the statuses attempted: one that the time window alone governs, with
\* done False and True, and the two final-completion markers
StatusArguments ==
    ({CompleteDesc} \X BOOLEAN) \cup (MarkerDescriptions \X {TRUE})

\* the statuses attempted where calls of _wrap_stream come between them
MarkerArguments ==
    ({CompleteDesc} \X {FALSE}) \cup (MarkerDescriptions \X {TRUE})

InitStatus ==
    /\ body0 = D([model |-> S(<<"ui-model">>), messages |-> L(<<UserText>>)])
    /\ valves \in {v \in ValveChoices : ~v.SHOW_OCR_RESULTS}
    /\ emitter = TRUE
    /\ env = AnyBehaviour
    /\ self = FreshSelf
    /\ now = StartTime
    /\ FreshRun
    /\ attempts = <<>>
    /\ alone = NotCompared
    /\ seen = NotSeen
    /\ other = NoRun
    /\ NotParsing
    /\ NotStreaming

\* the entry a call of _emit_status_once leaves in the log of the instance:
\* its pair, the time of the call, what became of it ("dropped" when it
\* returned before the emitter, "pending" while it awaits the emitter), and
\* for a call that has returned how many entries the log had when it did
CallEntry(description, done, t, awaits, n) ==
    [description |-> description, done |-> done, at |-> t,
     outcome |-> IF awaits THEN "pending" ELSE "dropped",
     until |-> IF awaits THEN 0 ELSE n]

\* what became of a call whose await of the emitter is over: the status was
\* delivered, or the emitter raised, whether or not the exception is one
\* that the method swallows
OutcomeOf(r) == IF r.emitter_raised THEN "raised" ELSE "delivered"

\* self._emit_status_once(description, done, __event_emitter__) is called
\* with one of the given (description, done) pairs and runs to its await of
\* the emitter (line 694), or to a return before it
StatusCallOf(arguments) ==
    /\ Len(attempts) < MaxAttempts
    /\ \E a \in arguments :
         /\ self' = StatusCheck(self, now, emitter, a[1], a[2]).self
         /\ attempts' =
                Append(attempts,
                       CallEntry(a[1], a[2], now,
                                 StatusCheck(self, now, emitter, a[1], a[2]).calls,
                                 Len(attempts) + 1))
    /\ UNCHANGED <<heap, inputs, now, pc, ocrLocals, final_body, calls, events,
                   emitter_errors, result, alone, seen, other, ocr_raw, parsed_raw,
                   consumed, wrap>>

\* the emitter a suspended call awaits returns or raises, and the call runs
\* from line 694 to its end with the time it read before the await
StatusResume ==
    /\ \E i \in DOMAIN attempts, o \in EmitterOutcomes :
         /\ attempts[i].outcome = "pending"
         /\ LET r == StatusDeliver(self, events, attempts[i].at,
                                   attempts[i].description, attempts[i].done, FALSE, o)
            IN /\ self' = r.self
               /\ events' = r.events
               /\ attempts' = [attempts EXCEPT ![i].outcome = OutcomeOf(r),
                                               ![i].until = Len(attempts)]
    /\ UNCHANGED <<heap, inputs, now, pc, ocrLocals, final_body, calls, emitter_errors,
                   result, alone, seen, other, ocr_raw, parsed_raw, consumed, wrap>>

\* a second passes
Wait ==
    /\ now < StartTime + MaxWait
    /\ now' = now + 1
    /\ UNCHANGED <<heap, inputs, aside, self, pc, ocrLocals, final_body, calls, events,
                   emitter_errors, result>>

StatusCall == StatusCallOf(StatusArguments)

NextStatus ==
    \/ StatusCall
    \/ StatusResume
    \/ Wait

SpecStatus == InitStatus /\ [][NextStatus]_vars

\* entry a of the log is a call of _emit_status_once, a call of _wrap_stream
IsReset(a) == a.outcome = "reset"
IsMarker(a) == a.description \in MarkerDescriptions

\* the emitter was called with the status of call a; it returned; it raised
Called(a) == a.outcome \in {"pending", "delivered", "raised"}
WasDelivered(a) == a.outcome = "delivered"
Failed(a) == a.outcome = "raised"

\* entries i and j of the log are calls with the same (description, done) pair
SamePair(i, j) ==
    /\ attempts[i].description = attempts[j].description
    /\ attempts[i].done = attempts[j].done

\* call i delivered the pair of call j, and the emitter was called with it
\* less than StatusTtl seconds before call j was made
DeliveredJustBefore(i, j) ==
    /\ i < j
    /\ WasDelivered(attempts[i])
    /\ SamePair(i, j)
    /\ attempts[j].at - attempts[i].at < StatusTtl

\* a status whose pair was delivered less than StatusTtl seconds earlier is
\* not passed to the emitter
WindowSuppresses ==
    \A j \in DOMAIN attempts :
        (\E i \in DOMAIN attempts : DeliveredJustBefore(i, j)) => ~Called(attempts[j])

\* nothing else keeps a status from the emitter
OnlyWindowSuppresses ==
    \A j \in DOMAIN attempts :
        ~IsReset(attempts[j]) =>
            (Called(attempts[j]) \/ \E i \in DOMAIN attempts : DeliveredJustBefore(i, j))

\* C12: on one instance, a status whose (description, done) pair was
\* delivered less than 3 seconds earlier is not passed to the emitter, and
\* every other status is: the same pair 3 seconds or more after its last
\* delivery, and a pair that differs in description or in done.
C12_DedupWindow == WindowSuppresses /\ OnlyWindowSuppresses

(***************************************************************************)
(* Two runs of pipe on one instance, interleaved at their await points.    *)
(* One run executes; the other is suspended and kept in `other`.  The      *)
(* instance (self, valves) and the clock are common to both.               *)
(***************************************************************************)
\* the local state of the executing run
Context ==
    [heap |-> heap, body0 |-> body0, emitter |-> emitter, env |-> env, pc |-> pc,
     stage |-> stage, art |-> art, image_parts |-> image_parts, idx |-> idx,
     per |-> per, ocr |-> ocr, err |-> err, final_body |-> final_body,
     calls |-> calls, events |-> events, emitter_errors |-> emitter_errors,
     result |-> result, alone |-> alone, seen |-> seen]

\* a run about to enter pipe
StartOf(body, em, e) ==
    [heap |-> BuildHeap(body), body0 |-> body, emitter |-> em, env |-> e,
     pc |-> "start", stage |-> "none", art |-> EmptyArt, image_parts |-> <<>>,
     idx |-> 1, per |-> EmptyPer, ocr |-> EmptyOcr, err |-> 0, final_body |-> 0,
     calls |-> <<>>, events |-> <<>>, emitter_errors |-> {}, result |-> NoResult,
     alone |-> [p \in BOOLEAN |-> RunAlone(body, valves, e, p)], seen |-> NotSeen]

\* the per-image results kept on the instance instead of in the run
ResumedSharingResults == [other EXCEPT !.per = per]

\* the local state a suspended run finds when it resumes: its own
Resumed == other

\* the positions where the run awaits _emit_status_once
StatusPositions == {"emit_running", "emit_complete", "emit_failed", "emit_composing"}

\* the executing run is suspended: in a completion call, in the emitter
\* called directly (preview, clear), or in the emitter called by
\* _emit_status_once
AtAwait ==
    \/ pc \in {"wait", "reason_wait"}
    \/ pc \in {"preview", "clear"} /\ emitter
    \/ /\ pc \in StatusPositions
       /\ IF seen.pc = pc THEN TRUE
          ELSE StatusAwaits(self, now, emitter, PendingStatus.description,
                            PendingStatus.done)

\* the event loop resumes the other run
Switch ==
    /\ other.pc \notin {"absent", "done", "raised"}
    /\ AtAwait \/ pc \in {"done", "raised"}
    /\ other' = [Context EXCEPT !.seen = IF pc \in StatusPositions /\ seen.pc # pc
                                         THEN [pc |-> pc, t |-> now] ELSE @]
    /\ heap' = Resumed.heap
    /\ body0' = Resumed.body0
    /\ emitter' = Resumed.emitter
    /\ env' = Resumed.env
    /\ pc' = Resumed.pc
    /\ stage' = Resumed.stage
    /\ art' = Resumed.art
    /\ image_parts' = Resumed.image_parts
    /\ idx' = Resumed.idx
    /\ per' = Resumed.per
    /\ ocr' = Resumed.ocr
    /\ err' = Resumed.err
    /\ final_body' = Resumed.final_body
    /\ calls' = Resumed.calls
    /\ events' = Resumed.events
    /\ emitter_errors' = Resumed.emitter_errors
    /\ result' = Resumed.result
    /\ alone' = Resumed.alone
    /\ seen' = Resumed.seen
    /\ UNCHANGED <<valves, user, self, now, attempts, ocr_raw, parsed_raw, consumed,
                   wrap>>

\* the behaviours the two runs meet: every call answered and every event
\* accepted, every event refused, or the first vision call and the reasoning
\* call failing
TwoBehaviours ==
    { [script |-> [i \in 1..ScriptLen |-> Completion(ReplyFull)],
       reason |-> Completion(t_hi), emitter |-> "ok"],
      [script |-> [i \in 1..ScriptLen |-> Completion(ReplyFull)],
       reason |-> Completion(t_hi), emitter |-> "raise"],
      [script |-> [i \in 1..ScriptLen |-> IF i = 1 THEN None ELSE Completion(ReplyFull)],
       reason |-> None, emitter |-> "ok"] }

TwoBody == D([model |-> S(<<"ui-model">>), messages |-> L(<<UserImage(u1)>>)])

InitTwo ==
    /\ body0 = TwoBody
    /\ valves \in {v \in ValveChoices : v.SHOW_OCR_RESULTS}
    /\ emitter = TRUE
    /\ env \in TwoBehaviours
    /\ self = FreshSelf
    /\ now = StartTime
    /\ FreshRun
    /\ attempts = <<>>
    /\ alone = [p \in BOOLEAN |-> RunAlone(body0, valves, env, p)]
    /\ seen = NotSeen
    /\ other \in {StartOf(TwoBody, TRUE, e) : e \in TwoBehaviours}
    /\ NotParsing
    /\ NotStreaming

NextTwo ==
    \/ Next
    \/ Switch

SpecTwo == InitTwo /\ [][NextTwo]_vars

\* the completion calls, the aggregate and the result of run r are those of
\* the run alone that meets the same behaviour of the models and of the
\* emitter on the preview
MatchesAlone(r) ==
    LET a == r.alone["message" \in r.emitter_errors]
    IN /\ IsPrefix(Requests(r.calls), a.requests)
       /\ r.pc \in {"done", "raised"} =>
            /\ Requests(r.calls) = a.requests
            /\ r.ocr = a.ocr
            /\ r.result.kind = a.kind
            /\ r.result.resp = a.resp

\* C13: of two runs interleaved at their await points on one instance, each
\* issues the vision requests, builds the aggregate OCR result and the final
\* conversation (the request of the reasoning call) and has the result it
\* has when it runs alone; the instance state they share is only read and
\* written by _emit_status_once.
C13_RunsDoNotInterfere ==
    /\ MatchesAlone(Context)
    /\ MatchesAlone(other)

\* the status events of run r that an emitter which never raised received
RunningDelivered(r) ==
    \E i \in DOMAIN r.events : r.events[i].description.fmt = RunningDesc(1).fmt

\* both runs have returned, and the interleaving has suppressed the running
\* status of one of them, which it delivers when it runs alone
C13_Witness ==
    /\ pc = "done" /\ other.pc = "done"
    /\ emitter_errors = {} /\ other.emitter_errors = {}
    /\ RunningDelivered(other) /\ ~RunningDelivered(Context)
    /\ Len(calls) > 1 /\ Len(other.calls) > 1

\* the status events run r delivered with the given description format
StatusCount(r, fmt) ==
    Cardinality({i \in DOMAIN r.events :
                    r.events[i].type = "status" /\ r.events[i].description.fmt = fmt})

\* a vision call of the primary stage of run r raised
PrimaryCallRaised(r) ==
    \E i \in DOMAIN r.calls :
        r.calls[i].stage = "primary" /\ r.calls[i].outcome = "raised"

\* run r has ended with a working emitter after its OCR call raised, and
\* the emitter received one failure status, with done = true, and no
\* "OCR complete." status
FailureReported(r) ==
    (r.pc \in {"done", "raised"} /\ r.emitter /\ r.emitter_errors = {}
     /\ PrimaryCallRaised(r))
    => /\ StatusCount(r, FailedDesc(1).fmt) = 1
       /\ \A i \in DOMAIN r.events :
              r.events[i].description.fmt = FailedDesc(1).fmt => r.events[i].done
       /\ StatusCount(r, CompleteDesc.fmt) = 0

\* C14: every run with an emitter in which the OCR call throws delivers
\* exactly one failure status with done = true and no "OCR complete."
\* status, also when another run on the same instance failed with the same
\* error shortly before.
C14_OneFailureStatus ==
    /\ FailureReported(Context)
    /\ FailureReported(other)

\* the clear events run r delivered
ClearCount(r) == Cardinality({i \in DOMAIN r.events : r.events[i] = ClearEvent})

\* the calls of the emitter with the clear event made by run r: delivered,
\* or refused by an emitter that raises
ClearSends(r) == ClearCount(r) + (IF "clear" \in r.emitter_errors THEN 1 ELSE 0)

\* run r sends no clear event before its reasoning call has returned, and
\* when it returns the response it has sent exactly one, done and hidden,
\* after all its other events
ClearedOnce(r) ==
    /\ r.pc # "done" => ClearSends(r) = 0
    /\ r.pc = "done" /\ r.emitter =>
         /\ r.calls[Len(r.calls)].kind = "reasoning"
         /\ r.calls[Len(r.calls)].outcome = "returned"
         /\ r.result.kind = "returned"
         /\ ClearSends(r) = 1
         /\ ClearCount(r) = 1 =>
              /\ r.events[Len(r.events)] = ClearEvent
              /\ ClearEvent.done /\ ClearEvent.hidden

\* C15: every run with an emitter whose reasoning call returns sends exactly
\* one clear status event (done, hidden), after the reasoning call returned
\* and after every other event of the run, before it returns the response;
\* the de-duplication cache of the instance never suppresses it, also when
\* another run on the same instance has sent its clear event just before.
C15_ClearSentOnce ==
    /\ ClearedOnce(Context)
    /\ ClearedOnce(other)

\* two runs on one instance have both returned and both delivered their
\* clear event, the second less than the window after the first
C15_Witness ==
    /\ pc = "done" /\ other.pc = "done"
    /\ ClearCount(Context) = 1 /\ ClearCount(other) = 1
    /\ Len(events) > 1 /\ Len(other.events) > 1
    /\ now - StartTime < StatusTtl

\* the outcome of a run that the error of the reasoning call (exception 3,
\* ReasonRaise) has left
ReasoningFailure == [kind |-> "raised", err |-> 3, resp |-> None]

\* C16: when the reasoning call raises, pipe raises that same error to its
\* caller and issues no second reasoning call, whatever the OCR stages did
\* before (success, failure, no images); a run never returns normally after
\* its reasoning call raised.
C16_ReasoningErrorPropagates ==
    /\ Cardinality(ReasoningCalls) <= 1
    /\ \A i \in ReasoningCalls :
           calls[i].outcome = "raised" =>
               /\ i = Len(calls)
               /\ pc = "raised"
               /\ result = ReasoningFailure
    /\ (pc = "raised" /\ result = ReasoningFailure) =>
           (ReasoningCalls # {} /\ calls[Len(calls)].outcome = "raised")

\* the reasoning call raised after a vision call of the same run had raised
\* and the OCR failure had been handled
C16_Witness ==
    /\ pc = "raised" /\ result = ReasoningFailure
    /\ \E i \in DOMAIN calls : calls[i].kind = "vision" /\ calls[i].outcome = "raised"
    /\ \E i \in ReasoningCalls : calls[i].outcome = "raised"

(***************************************************************************)
(* Runs on bodies with malformed entries: entries of a wrong type and      *)
(* entries that lack fields, next to well-formed images.                   *)
(***************************************************************************)
\* a file descriptor whose type is not a string, one without type, one with
\* a null type
BadTypeFile(u) == D([type |-> B(TRUE), url |-> S(u)])
MimeFile(u) == D([mimetype |-> S(mime_png), url |-> S(u)])
NullTypeFile(u) == D([type |-> None, url |-> S(u)])

UserFiles(fs) == D([role |-> S(c_user), content |-> S(t_hi), files |-> L(fs)])

\* ScanWindow user messages, the last with an image: what precedes them is
\* beyond the reach of the extractor
OlderTurns == [i \in 1..ScanWindow |-> IF i = ScanWindow THEN UserImage(u1) ELSE UserText]

\* the bodies with malformed entries, one of them without messages
MalformedBodies ==
    { D([model |-> S(<<"ui-model">>), messages |-> L(c)]) :
        c \in { <<S(<<"o", "o", "p", "s">>), UserImage(u1)>>,
                <<UserFiles(<<BadTypeFile(u2), ImageFile(u1)>>)>>,
                <<UserFiles(<<S(<<"x">>), ImageFile(u1)>>)>>,
                <<UserFiles(<<MimeFile(u1)>>)>>,
                <<UserFiles(<<NullTypeFile(u1)>>)>>,
                <<D([role |-> S(c_user), content |-> S(t_hi),
                     images |-> L(<<B(TRUE), S(u1)>>)])>>,
                <<D([role |-> S(c_user),
                     content |-> L(<<S(t_hi), NestedPart(u1)>>)])>>,
                <<None>> \o OlderTurns,
                <<S(<<>>)>> \o OlderTurns,
                <<UserFiles(<<BadTypeFile(u2)>>)>> \o OlderTurns } }
    \cup { D([model |-> S(<<"ui-model">>), messages |-> L(<<UserText>>),
             files |-> L(<<BadTypeFile(u2), ImageFile(u1)>>)]),
           D([model |-> S(<<"ui-model">>), images |-> L(<<S(u1)>>)]) }

InitMalformed ==
    /\ body0 \in MalformedBodies
    /\ valves \in ValveChoices
    /\ emitter \in BOOLEAN
    /\ env = AnyBehaviour
    /\ self = FreshSelf
    /\ now = StartTime
    /\ FreshRun
    /\ attempts = <<>>
    /\ alone = NotCompared
    /\ seen = NotSeen
    /\ other = NoRun
    /\ NotParsing
    /\ NotStreaming

SpecMalformed == InitMalformed /\ [][Next]_vars

\* C17: _extract_image_artifacts never raises on a body with malformed
\* entries (a message that is not a mapping, a file descriptor whose type is
\* not a string, entries of a wrong type, missing fields): no run ends with
\* an error of the extractor, and every run that ends has issued its
\* reasoning call.
C17_ExtractorNeverRaises ==
    /\ ~(pc = "raised" /\ result.err = 4)
    /\ Finished => ReasoningCalls # {}

(***************************************************************************)
(* Runs under the caps an administrator may set, zero included: the valves *)
(* are plain ints without validation (lines 33-40).                        *)
(***************************************************************************)
CapChoices ==
    [OCR_MAX_CHARS : {0, SmallCap, DefaultMaxChars},
     OCR_DESC_MAX_CHARS : {0, SmallCap},
     SHOW_OCR_RESULTS : {TRUE}]

InitCaps ==
    /\ body0 = TwoBody
    /\ valves \in CapChoices
    /\ emitter \in BOOLEAN
    /\ env = AnyBehaviour
    /\ self = FreshSelf
    /\ now = StartTime
    /\ FreshRun
    /\ attempts = <<>>
    /\ alone = NotCompared
    /\ seen = NotSeen
    /\ other = NoRun
    /\ NotParsing
    /\ NotStreaming

SpecCaps == InitCaps /\ [][Next]_vars

\* the first cap characters followed by the truncation marker for a value
\* longer than cap, the value itself otherwise
Capped(value, cap) ==
    IF Len(value) > cap THEN SubSeq(value, 1, cap) \o TruncationMarker ELSE value

\* the text and the description shown by a preview message built from the
\* aggregate o: the line between the first pair of code fences, and the line
\* between the second pair when there is one
ShownText(content, o) == content[IF o.category # <<>> THEN 6 ELSE 5]
ShownDesc(content) == content[Len(content) - 1]

\* the step that delivers the preview shows the capped aggregate text and
\* description
PreviewCapped ==
    (pc = "preview" /\ Len(events') = Len(events) + 1) =>
        LET content == events'[Len(events')].content
        IN /\ ocr.text # <<>> =>
                ShownText(content, ocr) = Txt(Capped(ocr.text, valves.OCR_MAX_CHARS))
           /\ ocr.desc # <<>> =>
                ShownDesc(content) = Txt(Capped(ocr.desc, valves.OCR_DESC_MAX_CHARS))

\* the step that composes the system message injects the capped aggregate
\* text and description
InjectionCapped ==
    (pc = "compose" /\ HasOcr(ocr)) =>
        LET msgs == Deref(heap', R(final_body)).v["messages"].v
            lines == msgs[1].v["content"].v
        IN /\ ocr.text # <<>> =>
                \E i \in DOMAIN lines :
                    /\ lines[i] = Lit("OCR_TEXT:")
                    /\ lines[i + 1] = Txt(Capped(ocr.text, valves.OCR_MAX_CHARS))
           /\ ocr.desc # <<>> =>
                \E i \in DOMAIN lines :
                    /\ lines[i] = Lit("OCR_DESCRIPTION:")
                    /\ lines[i + 1] = Txt(Capped(ocr.desc, valves.OCR_DESC_MAX_CHARS))

\* C18: for every configured cap, an aggregate text or description longer
\* than its cap is placed in the preview event and in the injected system
\* message as its first cap characters followed by the truncation marker,
\* never uncapped, and a value of length at most cap is placed unchanged.
C18_CappedEverywhere == [][PreviewCapped /\ InjectionCapped]_vars

(***************************************************************************)
(* Runs in which the vision model gives different categories to the        *)
(* images of one request.                                                  *)
(***************************************************************************)
ReplyMath == <<"C", "A", "T", "E", "G", "O", "R", "Y", ":", " ", "m", "a", "t", "h">>

CategoryBehaviours ==
    [script : [1..ScriptLen -> {Completion(ReplyFull), Completion(ReplyMath), None}],
     reason : ReasonResponses \cup {None},
     emitter : {"any"}]

CategoryBodies ==
    { D([model |-> S(<<"ui-model">>), messages |-> L(c)]) :
        c \in { <<UserImage(u1)>>, <<UserImage(u1), UserImage(u2)>> } }

InitCategories ==
    /\ body0 \in CategoryBodies
    /\ valves \in ValveChoices
    /\ emitter \in BOOLEAN
    /\ env \in CategoryBehaviours
    /\ self = FreshSelf
    /\ now = StartTime
    /\ FreshRun
    /\ attempts = <<>>
    /\ alone = NotCompared
    /\ seen = NotSeen
    /\ other = NoRun
    /\ NotParsing
    /\ NotStreaming

SpecCategories == InitCategories /\ [][Next]_vars

\* the values of a comma-joined list: s.split(", ")
RECURSIVE SplitCommas(_, _)
SplitCommas(s, cur) ==
    IF s = <<>> THEN <<cur>>
    ELSE IF Len(s) >= 2 /\ s[1] = "," /\ s[2] = " "
    THEN <<cur>> \o SplitCommas(SubSeq(s, 3, Len(s)), <<>>)
    ELSE SplitCommas(Tail(s), Append(cur, Head(s)))

\* C19: the aggregate OCR category of a run is the comma-joined list of the
\* distinct per-image categories, primary stage and incremental merge
\* together: every value in it is a category, and none occurs twice.
C19_CategoriesDistinct ==
    ocr.category # <<>> =>
        LET cats == SplitCommas(ocr.category, <<>>)
        IN /\ \A i \in DOMAIN cats : cats[i] \in AllowedCategories
           /\ \A i, j \in DOMAIN cats : cats[i] = cats[j] => i = j

(***************************************************************************)
(* _parse_ocr_structured_output on its own: a reply put together from      *)
(* pieces of the schema and of plain text is given to the parser.          *)
(***************************************************************************)
MaxPieces == 3

Fragments ==
    { <<"T", "e", "x", "t">>,
      <<"T", "E", "X", "T", ":">>,
      <<":">>,
      <<"\n">>,
      <<" ">>,
      <<"H", "i">>,
      <<"-", "-", "-">>,
      <<"D", "e", "s", "c", "r", "i", "p", "t", "i", "o", "n", ":">>,
      <<"C", "a", "t", "e", "g", "o", "r", "y", ":", " ", "p", "h", "o", "t", "o">> }

\* the replies: up to MaxPieces fragments, one after the other
Replies ==
    { Join(<<>>, ps) : ps \in UNION { [1..n -> Fragments] : n \in 0..MaxPieces } }

\* values a vision model may give as category: the members of the closed
\* set, the synonyms, and values that are neither
CategoryValues ==
    { <<"s", "c", "r", "e", "e", "n", "s", "h", "o", "t">>,
      <<"d", "o", "c", "u", "m", "e", "n", "t">>,
      <<"d", "i", "a", "g", "r", "a", "m">>,
      <<"m", "a", "t", "h">>,
      <<"s", "l", "i", "d", "e">>,
      <<"w", "h", "i", "t", "e", "b", "o", "a", "r", "d">>,
      <<"h", "a", "n", "d", "w", "r", "i", "t", "t", "e", "n", "_", "n", "o", "t", "e">>,
      <<"p", "h", "o", "t", "o">>,
      <<"o", "t", "h", "e", "r">>,
      <<"h", "a", "n", "d", "w", "r", "i", "t", "t", "e", "n">>,
      <<"h", "a", "n", "d", "w", "r", "i", "t", "i", "n", "g">>,
      <<"w", "e", "b", "p", "a", "g", "e">>,
      <<"u", "i">>,
      <<"s", "c", "r", "e", "e", "n">>,
      <<"p", "i", "c", "t", "u", "r", "e">>,
      <<"i", "m", "a", "g", "e">>,
      <<"H", "a", "n", "d", "-", "W", "r", "i", "t", "i", "n", "g">>,
      <<"W", "e", "b", "P", "a", "g", "e">>,
      <<"b", "a", "n", "a", "n", "a">>,
      <<"p", "h", "o", "t", "o", "g", "r", "a", "p", "h">>,
      <<"O", "t", "h", "e", "r", " ", "s", "t", "u", "f", "f">>,
      <<"U", "I">> }

\* a reply that consists of a category line with the given value
CategoryReply(value) == <<"C", "A", "T", "E", "G", "O", "R", "Y", ":", " ">> \o value

CategoryReplies == { CategoryReply(v) : v \in CategoryValues }

\* replies made of whole lines: headers, a category line, a separator,
\* content, a marker with content on its line, a blank line
MaxLines == 4

LineChoices ==
    { <<"T", "E", "X", "T", ":">>,
      <<"t", "e", "x", "t", " ", ":">>,
      <<"D", "e", "s", "c", "r", "i", "p", "t", "i", "o", "n", ":">>,
      <<"C", "a", "t", "e", "g", "o", "r", "y", ":", " ", "p", "h", "o", "t", "o">>,
      <<"-", "-", "-">>,
      <<"H", "i">>,
      <<"T", "E", "X", "T", ":", " ", "H", "i">>,
      <<" ">> }

LineReplies ==
    { Join(<<"\n">>, ls) : ls \in UNION { [1..n -> LineChoices] : n \in 1..MaxLines } }

InitParser ==
    /\ body0 = D([model |-> S(<<"ui-model">>), messages |-> L(<<UserText>>)])
    /\ valves \in {v \in ValveChoices : ~v.SHOW_OCR_RESULTS}
    /\ emitter = FALSE
    /\ env = AnyBehaviour
    /\ self = FreshSelf
    /\ now = StartTime
    /\ FreshRun
    /\ attempts = <<>>
    /\ alone = NotCompared
    /\ seen = NotSeen
    /\ other = NoRun
    /\ ocr_raw \in Replies \cup CategoryReplies \cup LineReplies
    /\ parsed_raw = NotParsed
    /\ NotStreaming

\* t, d, c = self._parse_ocr_structured_output(ocr_raw)
Parse ==
    /\ parsed_raw = NotParsed
    /\ parsed_raw' = _parse_ocr_structured_output(ocr_raw)
    /\ UNCHANGED <<heap, inputs, self, now, pc, ocrLocals, final_body, calls, events,
                   emitter_errors, result, attempts, alone, seen, other, ocr_raw, consumed,
                   wrap>>

NextParser == Parse

SpecParser == InitParser /\ [][NextParser]_vars

\* the reply has one of the substrings "text:", "description:", "category:"
\* at some position, whatever the case of its letters
ContainsMarker(s) ==
    \E word \in {m_text, m_description, m_category} :
        \E i \in 1..Len(s) :
            /\ i + Len(word) <= Len(s)
            /\ Lower(SubSeq(s, i, i + Len(word) - 1)) = word
            /\ s[i + Len(word)] = ":"

\* the reply without the whitespace before its first and after its last
\* character that is not whitespace
Trimmed(s) ==
    LET solid == {i \in DOMAIN s : s[i] \notin Whitespace}
    IN IF solid = {} THEN <<>>
       ELSE SubSeq(s, CHOOSE i \in solid : \A j \in solid : i <= j,
                      CHOOSE i \in solid : \A j \in solid : i >= j)

\* C20: for a reply that contains none of "text:", "description:",
\* "category:" (in any case), the parser returns the trimmed reply verbatim
\* as text, separator lines included, with empty description and category.
C20_PlainReplyVerbatim ==
    (parsed_raw # NotParsed /\ ~ContainsMarker(ocr_raw)) =>
        parsed_raw = [text |-> Trimmed(ocr_raw), description |-> <<>>, category |-> <<>>]

\* a parsed reply without markers that has whitespace to trim and a
\* separator line, which is kept in the text
C20_Witness ==
    /\ parsed_raw # NotParsed
    /\ ~ContainsMarker(ocr_raw)
    /\ Trimmed(ocr_raw) # ocr_raw
    /\ Contains(parsed_raw.text, <<"-", "-", "-">>)
    /\ Contains(parsed_raw.text, <<"H", "i">>)

\* the positions of s where word, in any case, is followed by a colon
MarkerPositions(s, word) ==
    {i \in 1..Len(s) : /\ i + Len(word) <= Len(s)
                       /\ Lower(SubSeq(s, i, i + Len(word) - 1)) = word
                       /\ s[i + Len(word)] = ":"}

\* the reply begins with its only TEXT: marker and has no DESCRIPTION: and
\* no CATEGORY: marker
TextMarkerOnly(s) ==
    /\ MarkerPositions(Trimmed(s), m_text) = {1}
    /\ MarkerPositions(s, m_description) = {}
    /\ MarkerPositions(s, m_category) = {}

\* the lines that are not a separator line of three dashes
RECURSIVE WithoutSeparators(_)
WithoutSeparators(lines) ==
    IF lines = <<>> THEN <<>>
    ELSE (IF Trimmed(Head(lines)) = <<"-", "-", "-">> THEN <<>> ELSE <<Head(lines)>>)
         \o WithoutSeparators(Tail(lines))

\* the content that follows the marker of such a reply, on the same line and
\* on the lines after it, without the separator lines
ContentAfterMarker(s) ==
    LET t == Trimmed(s)
        rest == SubSeq(t, Len(m_text) + 2, Len(t))
    IN Trimmed(Join(<<"\n">>, WithoutSeparators(SplitLines(rest))))

\* C21: for a reply with a TEXT: marker and no DESCRIPTION: or CATEGORY:
\* marker, the parser returns empty description and category and, as text,
\* the content following the marker without separator lines and without the
\* marker, whether the content starts on the marker's line or on the next.
C21_TextAfterMarker ==
    (parsed_raw # NotParsed /\ TextMarkerOnly(ocr_raw)) =>
        parsed_raw = [text |-> ContentAfterMarker(ocr_raw), description |-> <<>>,
                      category |-> <<>>]

\* the closed set of categories
CategorySet ==
    { <<"s", "c", "r", "e", "e", "n", "s", "h", "o", "t">>,
      <<"d", "o", "c", "u", "m", "e", "n", "t">>,
      <<"d", "i", "a", "g", "r", "a", "m">>,
      <<"m", "a", "t", "h">>,
      <<"s", "l", "i", "d", "e">>,
      <<"w", "h", "i", "t", "e", "b", "o", "a", "r", "d">>,
      <<"h", "a", "n", "d", "w", "r", "i", "t", "t", "e", "n", "_", "n", "o", "t", "e">>,
      <<"p", "h", "o", "t", "o">>,
      <<"o", "t", "h", "e", "r">> }

\* C22: the category the parser returns is a member of the closed set or
\* empty, whatever CATEGORY value the reply has, and normalization is
\* idempotent: a reply whose CATEGORY value is a member of the set yields
\* that member.
C22_CategoryClosedSet ==
    parsed_raw # NotParsed =>
        /\ parsed_raw.category \in CategorySet \cup {<<>>}
        /\ \A c \in CategorySet :
               ocr_raw = CategoryReply(c) => parsed_raw.category = c

\* a reply whose category value is the normalized handwritten_note has been
\* parsed to that category
C22_Witness ==
    /\ parsed_raw # NotParsed
    /\ \E c \in CategorySet :
           /\ Len(c) > 10
           /\ ocr_raw = CategoryReply(c)
           /\ parsed_raw.category = c

\* category values with the member of the set they are to be mapped to:
\* the three examples, the synonyms, and a value that starts with a member
CategoryExamples ==
    { <<<<"H", "a", "n", "d", "-", "W", "r", "i", "t", "i", "n", "g">>, <<"h", "a", "n", "d", "w", "r", "i", "t", "t", "e", "n", "_", "n", "o", "t", "e">>>>,
      <<<<"W", "e", "b", "P", "a", "g", "e">>, <<"s", "c", "r", "e", "e", "n", "s", "h", "o", "t">>>>,
      <<<<"b", "a", "n", "a", "n", "a">>, <<>>>>,
      <<<<"h", "a", "n", "d", "w", "r", "i", "t", "t", "e", "n">>, <<"h", "a", "n", "d", "w", "r", "i", "t", "t", "e", "n", "_", "n", "o", "t", "e">>>>,
      <<<<"h", "a", "n", "d", "w", "r", "i", "t", "i", "n", "g">>, <<"h", "a", "n", "d", "w", "r", "i", "t", "t", "e", "n", "_", "n", "o", "t", "e">>>>,
      <<<<"w", "e", "b", "p", "a", "g", "e">>, <<"s", "c", "r", "e", "e", "n", "s", "h", "o", "t">>>>,
      <<<<"u", "i">>, <<"s", "c", "r", "e", "e", "n", "s", "h", "o", "t">>>>,
      <<<<"s", "c", "r", "e", "e", "n">>, <<"s", "c", "r", "e", "e", "n", "s", "h", "o", "t">>>>,
      <<<<"p", "i", "c", "t", "u", "r", "e">>, <<"p", "h", "o", "t", "o">>>>,
      <<<<"i", "m", "a", "g", "e">>, <<"p", "h", "o", "t", "o">>>>,
      <<<<"p", "h", "o", "t", "o", "g", "r", "a", "p", "h">>, <<"p", "h", "o", "t", "o">>>> }

\* C23: normalization maps 'Hand-Writing' to handwritten_note, 'WebPage' to
\* screenshot and 'banana' to empty; the synonyms handwritten, handwriting,
\* webpage, ui, screen, picture, image are mapped to their member, and a
\* value that starts with a member is mapped to that member.
C23_CategoryExamples ==
    parsed_raw # NotParsed =>
        \A ex \in CategoryExamples :
            ocr_raw = CategoryReply(ex[1]) => parsed_raw.category = ex[2]

(***************************************************************************)
(* Runs whose reasoning call returns a streamed response: the caller takes *)
(* the chunks from the object pipe returned, after pipe has returned.      *)
(***************************************************************************)
\* a streamed response of the reasoning call, as the chunks it will deliver
StreamResponse == [k |-> "stream", v |-> <<S(<<"h">>), S(<<"i">>)>>]

\* requests with and without a stream value; without image, with an image,
\* with a file that is no image
StreamBodies ==
    { D(WithKey([model |-> S(<<"ui-model">>), messages |-> L(c)], "stream", st)) :
        c \in { <<UserText>>, <<UserImage(u1)>>, <<UserPdf>> }, st \in {B(TRUE), B(FALSE)} }
    \cup { D([model |-> S(<<"ui-model">>), messages |-> L(c)]) :
             c \in { <<UserText>>, <<UserImage(u1)>>, <<UserPdf>> } }

StreamBehaviours ==
    [script : [1..ScriptLen -> {Completion(ReplyFull), None}],
     reason : {Completion(t_hi), StreamResponse, None},
     emitter : {"any"}]

InitStream ==
    /\ body0 \in StreamBodies
    /\ valves \in ValveChoices
    /\ emitter \in BOOLEAN
    /\ env \in StreamBehaviours
    /\ self = FreshSelf
    /\ now = StartTime
    /\ FreshRun
    /\ attempts = <<>>
    /\ alone = NotCompared
    /\ seen = NotSeen
    /\ other = NoRun
    /\ NotParsing
    /\ NotStreaming

\* the caller takes the next chunk from the streamed response pipe returned
Consume ==
    /\ pc = "done"
    /\ result.resp.k = "stream"
    /\ consumed < Len(result.resp.v)
    /\ consumed' = consumed + 1
    /\ UNCHANGED <<heap, inputs, self, now, pc, ocrLocals, final_body, calls, events,
                   emitter_errors, result, attempts, alone, seen, other, ocr_raw,
                   parsed_raw, wrap>>

NextStream ==
    \/ Next
    \/ Consume

SpecStream == InitStream /\ [][NextStream]_vars

\* the stream value the caller gave, true when it gave none
CallerStream == IF "stream" \in DOMAIN body0.v THEN body0.v["stream"] ELSE B(TRUE)

\* C24: the request of the reasoning call has model = MAIN_MODEL_ID whatever
\* model the caller requested, and the caller's stream value (true when the
\* caller gave none); pipe returns the object the reasoning call returned,
\* streamed or not, as it is.
C24_MainRequestAndResponse ==
    /\ \A i \in ReasoningCalls :
           /\ calls[i].request.v["model"] = S(MAIN_MODEL_ID)
           /\ calls[i].request.v["stream"] = CallerStream
    /\ pc = "done" => result.resp = env.reason

\* pipe has returned a streamed response for a request that asked for
\* another model and gave no stream value
C24_Witness ==
    /\ pc = "done"
    /\ result.resp = StreamResponse
    /\ body0.v["model"] # S(MAIN_MODEL_ID)
    /\ "stream" \notin DOMAIN body0.v
    /\ calls[Len(calls)].request.v["stream"] = B(TRUE)

\* C28: when the reasoning call returns a streamed response, the clear
\* status is sent only after the response has finished: the caller has
\* taken every chunk of the stream before the emitter is called with it.
C28_ClearAfterStreamEnd ==
    (result.resp.k = "stream" /\ ClearSends(Context) > 0) =>
        consumed = Len(result.resp.v)

\* C25: every completion call issued before the reasoning call targets the
\* configured vision model with stream = false; its messages are exactly the
\* fixed system instruction followed by one user turn whose content is one
\* text part and exactly one image part, so no vision call carries more than
\* one image.
C25_VisionRequestShape ==
    \A i \in DOMAIN calls :
        (calls[i].kind = "reasoning" => \A j \in 1..(i - 1) : calls[j].kind = "vision")
        /\ (calls[i].kind # "reasoning" =>
               LET request == calls[i].request.v
                   messages == request["messages"].v
                   content == messages[2].v["content"].v
               IN /\ calls[i].kind = "vision"
                  /\ request["model"] = S(OCR_MODEL_ID)
                  /\ request["stream"] = B(FALSE)
                  /\ DOMAIN request = {"model", "stream", "messages"}
                  /\ Len(messages) = 2
                  /\ messages[1] = D([role |-> S(c_system), content |-> S(OcrSystemPrompt)])
                  /\ messages[2].v["role"] = S(c_user)
                  /\ Len(content) = 2
                  /\ content[1] = D([type |-> S(c_text), text |-> S(OcrUserText)])
                  /\ IsDict(content[2]) /\ IsImageTag(PType(content[2])))

\* a run with two images has issued two OCR calls and then the reasoning call
C25_Witness ==
    /\ ReasoningCalls # {}
    /\ Cardinality(VisionCalls) >= 2
    /\ \E i, j \in VisionCalls : CallImagePart(calls[i]) # CallImagePart(calls[j])


(***************************************************************************)
(* _wrap_stream called on the instance, among the calls of                 *)
(* _emit_status_once.  pipe itself never calls _wrap_stream.               *)
(***************************************************************************)
\* how many calls of _wrap_stream are followed
MaxWraps == 2

\* a synchronous iterator, and a response object that is neither iterable
\* nor an async iterator
SyncIterator == [k |-> "iter", v |-> <<S(<<"h">>), S(<<"i">>)>>]
OpaqueResponse == [k |-> "object", v |-> <<>>]

\* the objects given to _wrap_stream
WrapArguments ==
    {StreamResponse, SyncIterator, Completion(t_hi), S(t_hi), OpaqueResponse}

\* where the code runs: in the thread of the running event loop ("loop"), in
\* a thread that has no event loop ("worker"), or in a thread whose event
\* loop is not running, as the main thread of a process before any loop has
\* run ("main")
Contexts == {"loop", "worker", "main"}

\* hasattr(stream_obj, "__aiter__"), hasattr(stream_obj, "__iter__"): an
\* iterator, a dict, a list and a str have __iter__
HasAiter(x) == x.k = "stream"
HasIter(x) == x.k \in {"iter", "dict", "list", "str"}

\* what "for chunk in stream_obj" goes through: the keys of a dict in their
\* order, the characters of a str, the elements of anything else
IterItems(x) ==
    IF x.k = "dict" THEN [i \in 1..Len(KeysOf(x)) |-> KeyValue(KeysOf(x)[i])]
    ELSE IF x.k = "str" THEN [i \in 1..Len(x.v) |-> S(<<x.v[i]>>)]
    ELSE x.v

\* lines 745-746 and 758-759: asyncio.get_event_loop() and the call of
\* on_done() in the thread ctx; in a thread without event loop
\* get_event_loop raises, which the "except Exception: pass" swallows before
\* on_done is called
OnDoneCalled(ctx) == IF ctx = "worker" THEN 0 ELSE 1

\* lines 747-750 and 760-763: a running loop gets on_done() as a task and the
\* code goes on; with a loop that is not running asyncio.run(coro) runs
\* on_done() to its end before the code goes on
OnDoneAwaited(ctx) == ctx = "main"

\* _wrap_stream(stream_obj, on_done) called in the thread ctx on the instance
\* state me, up to its return or to the asyncio.run of line 763: the instance
\* state, what it returns, how often it has called on_done, and whether it
\* has returned a generator ("open"), returned the object ("returned") or is
\* running on_done ("running", before line 768)
_wrap_stream(me, stream_obj, ctx) ==
    IF HasAiter(stream_obj)
    THEN [self |-> [me EXCEPT !.completion_emitted = FALSE],
          ret |-> [k |-> "agen", v |-> stream_obj.v], on_done |-> 0, stage |-> "open"]
    ELSE IF HasIter(stream_obj)
    THEN [self |-> [me EXCEPT !.completion_emitted = FALSE],
          ret |-> [k |-> "gen", v |-> IterItems(stream_obj)], on_done |-> 0,
          stage |-> "open"]
    ELSE IF OnDoneAwaited(ctx)
    THEN [self |-> [me EXCEPT !.completion_emitted = FALSE],
          ret |-> stream_obj, on_done |-> OnDoneCalled(ctx), stage |-> "running"]
    ELSE [self |-> [me EXCEPT !.completion_emitted = FALSE,
                              !.composing_active = "False"],
          ret |-> stream_obj, on_done |-> OnDoneCalled(ctx), stage |-> "returned"]

IsGenerator(x) == x.k \in {"agen", "gen"}

\* the generator w enters its finally block in the thread ctx: agen awaits
\* on_done() (line 728) and stays there until it is over; gen calls on_done()
\* in that thread, if it can, and stays until it is over where asyncio.run
\* runs it, or else ends (lines 743-752)
GeneratorFinally(w, ctx, awaiting, over) ==
    IF w.ret.k = "agen"
    THEN [w EXCEPT !.stage = awaiting, !.on_done = @ + 1]
    ELSE [w EXCEPT !.stage = IF OnDoneAwaited(ctx) THEN awaiting ELSE over,
                   !.on_done = @ + OnDoneCalled(ctx)]

\* the entry a call of _wrap_stream leaves in the log of the instance
ResetEntry(t, n) ==
    [description |-> [fmt |-> "_wrap_stream", arg |-> 0], done |-> FALSE, at |-> t,
     outcome |-> "reset", until |-> n]

\* self._wrap_stream(stream_obj, on_done) with one of the given objects, by
\* any caller at any time
WrapCallOf(arguments) ==
    /\ Len(wrap) < MaxWraps
    /\ Len(attempts) < MaxAttempts
    /\ \E stream_obj \in arguments, ctx \in Contexts :
         /\ self' = _wrap_stream(self, stream_obj, ctx).self
         /\ wrap' = Append(wrap,
                [stage |-> _wrap_stream(self, stream_obj, ctx).stage,
                 arg |-> stream_obj,
                 ret |-> _wrap_stream(self, stream_obj, ctx).ret,
                 taken |-> <<>>,
                 on_done |-> _wrap_stream(self, stream_obj, ctx).on_done])
    /\ attempts' = Append(attempts, ResetEntry(now, Len(attempts) + 1))
    /\ UNCHANGED <<heap, inputs, now, pc, ocrLocals, final_body, calls, events,
                   emitter_errors, result, alone, seen, other, ocr_raw, parsed_raw,
                   consumed>>

\* lines 764-769: the on_done() that asyncio.run runs for an object that is
\* no stream is over; the finally sets _composing_active, and the call
\* returns the object, or is left by an exception of on_done that is no
\* Exception
WrapReturn ==
    /\ \E n \in DOMAIN wrap, o \in EmitterOutcomes :
         /\ wrap[n].stage = "running"
         /\ wrap' = [wrap EXCEPT ![n].stage =
                IF o # "ok" /\ ~IsException(EmitterError(o)) THEN "failed"
                ELSE "returned"]
    /\ self' = [self EXCEPT !.composing_active = "False"]
    /\ UNCHANGED <<heap, inputs, now, pc, ocrLocals, final_body, calls, events,
                   emitter_errors, result, attempts, alone, seen, other, ocr_raw,
                   parsed_raw, consumed>>

\* a consumer in the thread ctx asks a returned generator for its next
\* chunk.  agen awaits the wrapped stream for it (line 724) and is suspended
\* there; gen takes it from the wrapped object at once (line 741): it yields
\* the next chunk, or reaches the end and enters the finally
WrapNext ==
    /\ \E n \in DOMAIN wrap, ctx \in Contexts :
         /\ wrap[n].stage = "open"
         /\ wrap' = [wrap EXCEPT ![n] =
                IF wrap[n].ret.k = "agen"
                THEN [wrap[n] EXCEPT !.stage = "asking"]
                ELSE IF Len(wrap[n].taken) < Len(wrap[n].ret.v)
                THEN [wrap[n] EXCEPT !.taken = Append(@, wrap[n].ret.v[Len(@) + 1])]
                ELSE GeneratorFinally(wrap[n], ctx, "finishing", "ended")]
    /\ UNCHANGED <<heap, inputs, self, now, pc, ocrLocals, final_body, calls, events,
                   emitter_errors, result, attempts, alone, seen, other, ocr_raw,
                   parsed_raw, consumed>>

\* the wrapped stream answers agen, which awaits it at line 724: with its
\* next chunk, which agen yields, or with its end, and agen enters the
\* finally
WrapArrive ==
    /\ \E n \in DOMAIN wrap, ctx \in Contexts :
         /\ wrap[n].stage = "asking"
         /\ wrap' = [wrap EXCEPT ![n] =
                IF Len(wrap[n].taken) < Len(wrap[n].ret.v)
                THEN [wrap[n] EXCEPT !.stage = "open",
                                     !.taken = Append(@, wrap[n].ret.v[Len(@) + 1])]
                ELSE GeneratorFinally(wrap[n], ctx, "finishing", "ended")]
    /\ UNCHANGED <<heap, inputs, self, now, pc, ocrLocals, final_body, calls, events,
                   emitter_errors, result, attempts, alone, seen, other, ocr_raw,
                   parsed_raw, consumed>>

\* the consumer is cancelled while agen awaits the wrapped stream: the
\* CancelledError is thrown into the await of line 724 and agen enters the
\* finally with it
WrapCancel ==
    /\ \E n \in DOMAIN wrap, ctx \in Contexts :
         /\ wrap[n].stage = "asking"
         /\ wrap' = [wrap EXCEPT ![n] =
                GeneratorFinally(wrap[n], ctx, "cancelling", "cancelled")]
    /\ UNCHANGED <<heap, inputs, self, now, pc, ocrLocals, final_body, calls, events,
                   emitter_errors, result, attempts, alone, seen, other, ocr_raw,
                   parsed_raw, consumed>>

\* a consumer in the thread ctx closes or drops a returned generator before
\* its end: a generator suspended at its yield enters the finally, one that
\* was never started runs nothing
WrapClose ==
    /\ \E n \in DOMAIN wrap, ctx \in Contexts :
         /\ wrap[n].stage = "open"
         /\ wrap' = [wrap EXCEPT ![n] =
                IF wrap[n].taken = <<>> THEN [wrap[n] EXCEPT !.stage = "closed"]
                ELSE GeneratorFinally(wrap[n], ctx, "closing", "closed")]
    /\ UNCHANGED <<heap, inputs, self, now, pc, ocrLocals, final_body, calls, events,
                   emitter_errors, result, attempts, alone, seen, other, ocr_raw,
                   parsed_raw, consumed>>

\* how the generator ends when the on_done() of its finally has returned or
\* raised an Exception, which lines 729-730 and 751-752 drop: at its end,
\* closed, or left by the CancelledError that was thrown into it
AfterFinally(st) ==
    CASE st = "finishing" -> "ended"
      [] st = "closing" -> "closed"
      [] OTHER -> "cancelled"

\* the on_done() a generator awaits or runs in its finally is over: it
\* returned or raised an Exception; or it raised anything else, which leaves
\* the generator
WrapFinish ==
    /\ \E n \in DOMAIN wrap, o \in EmitterOutcomes :
         /\ wrap[n].stage \in {"finishing", "closing", "cancelling"}
         /\ wrap' = [wrap EXCEPT ![n].stage =
                IF o # "ok" /\ ~IsException(EmitterError(o)) THEN "failed"
                ELSE AfterFinally(@)]
    /\ UNCHANGED <<heap, inputs, self, now, pc, ocrLocals, final_body, calls, events,
                   emitter_errors, result, attempts, alone, seen, other, ocr_raw,
                   parsed_raw, consumed>>

WrapCall == WrapCallOf(WrapArguments)

\* how often on_done was called by the calls ws of _wrap_stream
RECURSIVE OnDoneCalls(_)
OnDoneCalls(ws) == IF ws = <<>> THEN 0 ELSE ws[1].on_done + OnDoneCalls(Tail(ws))

\* the calls of _emit_status_once in the log
StatusCalls == {i \in DOMAIN attempts : ~IsReset(attempts[i])}

\* what on_done does when it runs: it emits the final-completion marker
\* through _emit_status_once, once for each time it was called
DoneArguments == {<<FinalDesc, TRUE>>}
DoneCall ==
    /\ Cardinality(StatusCalls) < OnDoneCalls(wrap)
    /\ StatusCallOf(DoneArguments)

\* _wrap_stream, the consumption of what it returns, and on_done
NextWrap ==
    \/ WrapCall
    \/ WrapReturn
    \/ WrapNext
    \/ WrapArrive
    \/ WrapCancel
    \/ WrapClose
    \/ WrapFinish
    \/ DoneCall
    \/ StatusResume

SpecWrap == InitStatus /\ [][NextWrap]_vars

\* the calls of _emit_status_once and of _wrap_stream on one instance, in
\* any order and overlapping: every call of _wrap_stream begins a completion
\* sequence, here with the response of a streamed completion.  What a
\* consumer does with the returned generator touches neither the flag nor
\* the cache
MarkerCall == StatusCallOf(MarkerArguments)
SequenceStart == WrapCallOf({StreamResponse})

NextMarker ==
    \/ MarkerCall
    \/ StatusResume
    \/ Wait
    \/ SequenceStart

SpecMarker == InitStatus /\ [][NextMarker]_vars

\* C26: of two calls of _emit_status_once with a final-completion marker that
\* reached the emitter on one instance, whatever the time between them and
\* whether or not they overlap, the later one follows a call of _wrap_stream
\* made after the earlier one: in the sequence a call of _wrap_stream begins
\* a marker is delivered at most once.
C26_MarkerOncePerSequence ==
    \A i, j \in DOMAIN attempts :
        (i < j /\ IsMarker(attempts[i]) /\ IsMarker(attempts[j])
               /\ Called(attempts[i]) /\ Called(attempts[j]))
            => \E k \in DOMAIN attempts : i < k /\ k < j /\ IsReset(attempts[k])

\* a marker is passed to the emitter, _wrap_stream is called while that call
\* is still awaiting the emitter, the same marker is attempted again, and
\* both are delivered
C26_Witness ==
    \E i, k, l \in DOMAIN attempts :
        /\ i < k /\ k < l
        /\ IsMarker(attempts[i]) /\ WasDelivered(attempts[i])
        /\ IsReset(attempts[k])
        /\ attempts[i].until >= l
        /\ SamePair(i, l)
        /\ WasDelivered(attempts[l])

\* the object given to _wrap_stream is a stream: an async or sync sequence
IsSequence(x) == x.k \in {"stream", "iter"}

\* C27: a call of _wrap_stream calls on_done at most once, exactly once when
\* the wrapped sequence is exhausted and exactly once when the object is a
\* single non-streamed response, which is returned as it is; the chunks
\* yielded are those of the wrapped sequence, in order.
C27_WrapStreamContract ==
    \A n \in DOMAIN wrap :
        /\ wrap[n].on_done <= 1
        /\ IF IsSequence(wrap[n].arg)
           THEN /\ IsGenerator(wrap[n].ret)
                /\ IsPrefix(wrap[n].taken, wrap[n].arg.v)
                /\ wrap[n].stage = "ended" =>
                       (wrap[n].on_done = 1 /\ wrap[n].taken = wrap[n].arg.v)
           ELSE /\ wrap[n].ret = wrap[n].arg
                /\ wrap[n].on_done = 1



(***************************************************************************)
(* Conversations with an artifact on a message of any role, followed by    *)
(* up to MaxRecent later user messages, with and without top-level lists.  *)
(***************************************************************************)
MaxRecent == 6

c_tool == <<"t", "o", "o", "l">>

\* a message of the given role that carries the locator u1 in the given way
Carrier(role, shape) ==
    IF shape = "images"
    THEN D([role |-> S(role), content |-> S(t_hi), images |-> L(<<S(u1)>>)])
    ELSE IF shape = "files"
    THEN D([role |-> S(role), content |-> S(t_hi), files |-> L(<<ImageFile(u1)>>)])
    ELSE D([role |-> S(role), content |-> L(<<TextPart, NestedPart(u1)>>)])

\* n exchanges without artifact: an assistant message and a user message each
RECURSIVE Exchanges(_)
Exchanges(n) == IF n = 0 THEN <<>> ELSE <<AssistantText, UserText>> \o Exchanges(n - 1)

WindowConversations ==
    { <<Carrier(role, shape)>> \o Exchanges(n) :
        role \in {c_user, c_assistant, c_system, c_tool},
        shape \in {"images", "files", "content"},
        n \in 0..MaxRecent }

WindowBodies ==
    { D([model |-> S(<<"ui-model">>), messages |-> L(c)]) : c \in WindowConversations }
    \cup { D([model |-> S(<<"ui-model">>), messages |-> L(c), images |-> L(<<S(u2)>>)]) :
             c \in WindowConversations }
    \cup { D([model |-> S(<<"ui-model">>), messages |-> L(c),
              files |-> L(<<ImageFile(u2)>>)]) : c \in WindowConversations }

\* the vision model answers its first call and fails on the second, or the
\* other way round; the reasoning model answers or fails
WindowBehaviours ==
    { [script |-> <<Completion(ReplyFull), None>>, reason |-> Completion(t_hi),
       emitter |-> "any"],
      [script |-> <<None, Completion(ReplyFull)>>, reason |-> None, emitter |-> "any"] }

InitWindow ==
    /\ body0 \in WindowBodies
    /\ valves \in {v \in ValveChoices : v.SHOW_OCR_RESULTS}
    /\ emitter = TRUE
    /\ env \in WindowBehaviours
    /\ self = FreshSelf
    /\ now = StartTime
    /\ FreshRun
    /\ attempts = <<>>
    /\ alone = NotCompared
    /\ seen = NotSeen
    /\ other = NoRun
    /\ NotParsing
    /\ NotStreaming

SpecWindow == InitWindow /\ [][Next]_vars

\* the locators in the elements of a list of images, files or content parts
ListLocators(xs) ==
    { xs[i].v : i \in {k \in DOMAIN xs : IsStr(xs[k])} }
    \cup { xs[i].v["url"].v : i \in {k \in DOMAIN xs : IsDict(xs[k]) /\ HasKey(xs[k], "url")} }
    \cup { xs[i].v["image_url"].v["url"].v :
             i \in {k \in DOMAIN xs : IsDict(xs[k]) /\ HasKey(xs[k], "image_url")} }

\* the locators attached to a message or given in the top-level lists
Attached(d) ==
    ListLocators(ListAt(d, "images")) \cup ListLocators(ListAt(d, "files"))
        \cup ListLocators(ListAt(d, "content"))
TopLevel(body) == ListLocators(ListAt(body, "images")) \cup ListLocators(ListAt(body, "files"))

\* the locators in a result of the extractor
Returned(a) ==
    ListLocators(a.image_urls) \cup ListLocators(a.image_files)
        \cup ListLocators(a.content_parts)

\* the positions of the user messages with fewer than 5 user messages after them
RecentUsers(messages) ==
    { i \in DOMAIN messages :
        /\ messages[i].v["role"] = S(c_user)
        /\ Cardinality({ j \in DOMAIN messages :
                           j > i /\ messages[j].v["role"] = S(c_user) }) < 5 }

\* C29: the locators _extract_image_artifacts returns are those attached to
\* the 5 most recent messages of role user and those of the top-level images
\* and files lists: a locator attached only to an assistant, system or tool
\* message, or only to an older user message, is not returned, and the
\* top-level ones always are.
C29_ScanWindow ==
    LET messages == body0.v["messages"].v
    IN Returned(_extract_image_artifacts(body0)) =
           UNION { Attached(messages[i]) : i \in RecentUsers(messages) }
               \cup TopLevel(body0)

\* the extractor has run on a conversation whose first message is a user
\* message with an artifact, followed by 5 user messages, with a top-level
\* image: it returned the top-level locator and not the old one
C29_Witness ==
    /\ pc # "start"
    /\ Len(body0.v["messages"].v) = 11
    /\ body0.v["messages"].v[1].v["role"] = S(c_user)
    /\ art = _extract_image_artifacts(body0)
    /\ Returned(art) = {u2}


\* the composing status of line 637
IsComposingStatus(e) ==
    /\ e.type = "status"
    /\ e.description.fmt = "Composing response using {MAIN_MODEL_ID}..."
    /\ ~e.done

\* C30: a run in which the extractor detects no image delivers no OCR status
\* ("Running OCR", "OCR complete.", "OCR failed", "no images") and no preview
\* message: every event it delivers is the composing status or the final
\* clear status.
C30_QuietWithoutImages ==
    (~_extract_image_artifacts(body0).has_images) =>
        \A i \in DOMAIN events : IsComposingStatus(events[i]) \/ events[i] = ClearEvent

\* a finished run without detected image that has delivered the composing
\* status and the clear status, although its incremental stage called the
\* vision model for a file that is no image
C30_Witness ==
    /\ ~_extract_image_artifacts(body0).has_images
    /\ pc = "done"
    /\ VisionCalls # {}
    /\ Len(events) = 2
    /\ IsComposingStatus(events[1])
    /\ events[2] = ClearEvent


\* the calls of the emitter with a preview message made so far: delivered,
\* or refused by an emitter that raises
PreviewSends ==
    Cardinality({i \in DOMAIN events : events[i].type = "message"})
        + (IF "message" \in emitter_errors THEN 1 ELSE 0)

\* every vision call of the primary stage has returned
PrimaryCompleted ==
    \A i \in VisionCalls : calls[i].stage = "primary" /\ calls[i].outcome = "returned"

\* C31: a step that sends a preview message to the emitter is taken with
\* SHOW_OCR_RESULTS true, after every vision call of the primary stage has
\* returned without error, before any other call and before the reasoning
\* call is issued, and no preview was sent before it; so with
\* SHOW_OCR_RESULTS false no message event is ever sent and a run sends at
\* most one.
C31_PreviewOnlyWhenShown ==
    [][PreviewSends' > PreviewSends =>
          /\ valves.SHOW_OCR_RESULTS
          /\ PreviewSends = 0
          /\ PreviewSends' = 1
          /\ VisionCalls # {}
          /\ PrimaryCompleted
          /\ ReasoningCalls = {}]_vars

\* a finished run that delivered one preview message and then called the
\* reasoning model
C31_Witness ==
    /\ pc = "done"
    /\ valves.SHOW_OCR_RESULTS
    /\ Cardinality({i \in DOMAIN events : events[i].type = "message"}) = 1
    /\ ReasoningCalls # {}


\* the lines of a reply, and those that are neither header, category line
\* nor separator
ReplyLines(s) == SplitLines(Strip(s))
IsContentLine(line) ==
    /\ ~IsHeader(line, m_text)
    /\ ~IsHeader(line, m_description)
    /\ ~IsCategoryLine(line)
    /\ ~IsSeparator(line)

\* line i comes after a DESCRIPTION: header with no TEXT: header in between
AfterDescription(lines, i) ==
    \E j \in 1..(i - 1) :
        /\ IsHeader(lines[j], m_description)
        /\ \A k \in (j + 1)..(i - 1) : ~IsHeader(lines[k], m_text)

\* the lines at the positions in chosen, in their order, from position i on
RECURSIVE LinesAt(_, _, _)
LinesAt(lines, chosen, i) ==
    IF i > Len(lines) THEN <<>>
    ELSE (IF i \in chosen THEN <<lines[i]>> ELSE <<>>) \o LinesAt(lines, chosen, i + 1)

\* "\n".join(lines).strip() of the content lines in and out of a description
SectionText(s, in_description) ==
    LET lines == ReplyLines(s)
        chosen == { i \in DOMAIN lines :
                      IsContentLine(lines[i]) /\ (AfterDescription(lines, i) <=> in_description) }
    IN Strip(Join(<<"\n">>, LinesAt(lines, chosen, 1)))

\* C32: for a reply with markers, the text returned is made of the lines that
\* are no header, category line or separator and do not follow a
\* DESCRIPTION: header without a TEXT: header in between, the description of
\* those that do, each in the original order, joined by newlines and
\* trimmed (a description that is a placeholder such as "none" is returned
\* empty); no other line is in either.
C32_LinesBySection ==
    (parsed_raw # NotParsed /\ ContainsMarker(ocr_raw)) =>
        /\ parsed_raw.text = SectionText(ocr_raw, FALSE)
        /\ parsed_raw.description =
              (IF Lower(SectionText(ocr_raw, TRUE)) \in EmptyDescriptions
               THEN <<>> ELSE SectionText(ocr_raw, TRUE))

\* a parsed reply with a description line and, after a TEXT: header that
\* follows it, a text line
C32_Witness ==
    /\ parsed_raw # NotParsed
    /\ LET lines == ReplyLines(ocr_raw)
       IN /\ Len(lines) = 4
          /\ IsHeader(lines[1], m_description)
          /\ IsContentLine(lines[2])
          /\ IsHeader(lines[3], m_text)
          /\ IsContentLine(lines[4])
          /\ lines[2] # lines[4]
          /\ parsed_raw.description = lines[2]
          /\ parsed_raw.text = lines[4]


\* the vision calls issued by the primary OCR stage
PrimaryCalls == {i \in VisionCalls : calls[i].stage = "primary"}

\* the primary OCR loop has ended
PrimaryOver == stage # "none" /\ (stage # "primary" \/ pc \notin {"loop", "wait"})

\* C33: when the status "Running OCR on N image(s)" was delivered and the
\* primary OCR stage has ended without a vision call that raised, the stage
\* has issued exactly N vision calls.
C33_CountMatchesCalls ==
    \A k \in DOMAIN events :
        (/\ events[k].type = "status"
         /\ events[k].description.fmt = RunningDesc(0).fmt
         /\ PrimaryOver
         /\ \A i \in PrimaryCalls : calls[i].outcome = "returned")
            => Cardinality(PrimaryCalls) = events[k].description.arg


\* the statuses run r delivered through _emit_status_once with the given
\* description and done flag
Delivered(r, description, done) ==
    Cardinality({i \in DOMAIN r.events :
                    /\ r.events[i].type = "status" /\ ~r.events[i].clear
                    /\ r.events[i].description = description
                    /\ r.events[i].done = done})

\* the (description, done) pairs the two runs attempt
StatusPairs ==
    {<<RunningDesc(1), FALSE>>, <<CompleteDesc, TRUE>>, <<FailedDesc(1), TRUE>>,
     <<ComposingDesc, FALSE>>}

\* C34: while less than 3 seconds have passed since the two runs on the
\* instance started, each (description, done) pair has been delivered at most
\* once by the two runs together, however they interleave at the await of
\* the emitter.
C34_DedupAcrossRuns ==
    (other.pc # "absent" /\ now - StartTime < StatusTtl) =>
        \A pair \in StatusPairs :
            Delivered(Context, pair[1], pair[2]) + Delivered(other, pair[1], pair[2]) <= 1

\* call k is a later attempt of the pair of call i, in which the emitter
\* raised, made when call i had returned
RetryOf(log, i, k) ==
    /\ Failed(log[i])
    /\ log[i].until < k
    /\ ~IsReset(log[k])
    /\ log[k].description = log[i].description
    /\ log[k].done = log[i].done

\* call i goes from awaiting the emitter to having failed in it
FailsNow(i) == attempts[i].outcome = "pending" /\ Failed(attempts'[i])

\* the step is a new call of _emit_status_once or of _wrap_stream
NewCall == Len(attempts') > Len(attempts)

\* C35 as stated: a call of _emit_status_once in which the emitter raises
\* leaves the cache of delivery times as it was, and a call with the same
\* (description, done) pair made afterwards in the same second is passed to
\* the emitter instead of being suppressed.
C35_RetryAlwaysDelivered ==
    [][/\ \A i \in DOMAIN attempts :
             FailsNow(i) => self'.status_last_emit = self.status_last_emit
       /\ NewCall =>
             \A i \in DOMAIN attempts :
                 (/\ RetryOf(attempts', i, Len(attempts'))
                  /\ attempts'[Len(attempts')].at = attempts[i].at)
                     => Called(attempts'[Len(attempts')])]_vars

\* call j had delivered the pair of call k and returned when k was made,
\* less than StatusTtl seconds before it
RecordedJustBefore(log, j, k) ==
    /\ WasDelivered(log[j])
    /\ log[j].until < k
    /\ log[j].description = log[k].description
    /\ log[j].done = log[k].done
    /\ log[k].at - log[j].at < StatusTtl

\* _wrap_stream was called between the calls i and k
ResetBetween(log, i, k) == \E n \in DOMAIN log : i < n /\ n < k /\ IsReset(log[n])

\* C35: a call of _emit_status_once in which the emitter raises leaves the
\* cache of delivery times as it was, so a later call with the same
\* (description, done) pair, however soon after, is passed to the emitter
\* unless another call delivered that pair less than 3 seconds before it;
\* but a final-completion marker is not passed again while no call of
\* _wrap_stream has reset the flag that the failed call set.
C35_RaiseLeavesCache ==
    [][/\ \A i \in DOMAIN attempts :
             FailsNow(i) => self'.status_last_emit = self.status_last_emit
       /\ NewCall =>
             \A i \in DOMAIN attempts :
                 RetryOf(attempts', i, Len(attempts')) =>
                     IF IsMarker(attempts[i])
                     THEN ResetBetween(attempts', i, Len(attempts'))
                          \/ ~Called(attempts'[Len(attempts')])
                     ELSE \/ Called(attempts'[Len(attempts')])
                          \/ \E j \in DOMAIN attempts :
                                 RecordedJustBefore(attempts', j, Len(attempts'))]_vars

\* the emitter raised on a pair that is no marker, and the same pair
\* attempted again in the same second was delivered
C35_Witness ==
    \E i, k \in DOMAIN attempts :
        /\ RetryOf(attempts, i, k)
        /\ ~IsMarker(attempts[i])
        /\ attempts[k].at = attempts[i].at
        /\ WasDelivered(attempts[k])

====
